---------------------------- MODULE Spec2Model ----------------------------
(***************************************************************************)
(* Account security and membership-payment core of the StudentsNet         *)
(* backend (src/backend/server.py, src/backend/security.py), and the       *)
(* in-memory security classes of src/backend/advanced_security.py, which   *)
(* hold their state in class attributes and are called directly.           *)
(*                                                                         *)
(* The durable store is the pair (users, txns): the "users" collection as  *)
(* a function from account id to document, the "payment_transactions"      *)
(* collection as a sequence of documents in insertion order.  Time is in   *)
(* minutes.  A document field that a document may lack is a sequence:      *)
(* <<>> when the field is absent, <<v>> when it holds v.                   *)
(***************************************************************************)
EXTENDS Integers, Sequences, FiniteSets, TLC

VARIABLES
    now,        \* datetime.now(timezone.utc), in minutes
    users,      \* db.users: account id -> document
    txns,       \* db.payment_transactions, in insertion order
    nextId,     \* number of student ids handed out so far (uuid4 never repeats)
    last,       \* the request handled by the latest step, and its response
    streak,     \* history: per id, failed password checks since the count was 0
    failedAt,   \* history: per id, time of the latest failed password check
    approved,   \* history: ids whose pending submission an administrator approved
    ip_failed_attempts,  \* IPSecurityMonitor._failed_attempts: address -> timestamps
    blacklisted_ips,  \* IPSecurityMonitor._blacklisted_ips: address -> expiry
    events,     \* history: per address, the time of every attempt recorded
    crossedAt,  \* history: per address, the latest attempt that was at least
                \* the 51st of its trailing hour
    request_patterns,  \* AntiAutomationDetector._request_patterns: address -> requests
    second,     \* the seconds of the clock past the minute of now
    token_blacklist,       \* TokenBlacklist._blacklist
    blacklist_timestamps,  \* TokenBlacklist._blacklist_timestamps: token -> expiry
    issued,     \* the tokens create_token has returned so far
    revocations,  \* history: the tokens TokenBlacklist.add has been called with
    sessions,   \* SessionSecurityManager._sessions: session id -> session
    config,     \* AdvancedSecurityConfig: the two session consistency switches
    procs,      \* login requests in flight: where each one is, what it has read
    batch,      \* history: the login requests that overlapped since all were idle
    regs,       \* register requests in flight: the form each one validated
    pays        \* payment requests in flight: a submission and an
                \* administrative update, and whether they overlapped

ipvars == <<ip_failed_attempts, blacklisted_ips, events, crossedAt,
            request_patterns, second>>
tokvars == <<token_blacklist, blacklist_timestamps, issued,
             revocations>>
sessvars == <<sessions, config>>
racevars == <<procs, batch, regs, pays>>
secvars == <<ipvars, tokvars, sessvars, racevars>>
vars == <<now, users, txns, nextId, last, streak, failedAt, approved, secvars>>

----------------------------------------------------------------------------
(* Bounds of the model *)

MaxAttempts == 52   \* attempts an address keeps on record at a time
MaxBurstTime == 90  \* the address monitor's clock moves in half hours up to here
MaxIpTime == 1530   \* and in steps of about a day up to here
MaxPairTime == 1440 \* with two addresses the clock moves by a day, once
MaxTokenTime == 43260   \* the tokens' clock stops here, an hour past 30 days
MaxTokens == 2      \* tokens issued
MaxSessions == 2    \* sessions created
MaxLogins == 6      \* login requests made where requests overlap
MaxRegistrations == 2   \* accounts created where register requests overlap
MaxEvents == 3      \* attempts recorded where every attempt is remembered
MaxRequests == 102  \* requests an address keeps on record at a time
MaxSecond == 9      \* the seconds of the clock stop here
MaxDetectorTime == 122  \* the clock stops here where requests are watched
MaxWindowTime == 122    \* the clock stops here where it moves around one hour

MaxUsers == 1       \* student registrations explored
MaxTime == 60       \* the clock stops here
MaxTxns == 2        \* payment transactions explored

(* Program constants *)

MAX_FAILED_LOGIN_ATTEMPTS == 5
LOCKOUT_DURATION_MINUTES == 30
MAX_UPLOAD_BYTES == 5242880
MIN_TRANSACTION_ID_LEN == 8
MIN_PHONE_DIGITS == 10
MAX_PHONE_DIGITS == 15

OwnerId == 0
StudentIds == 1..MaxUsers

----------------------------------------------------------------------------
(* Optional values: a missing dictionary key, or None *)

Absent == <<>>
Some(v) == <<v>>
Get(field, default) == IF field = Absent THEN default ELSE field[1]

(* datetime.isoformat() and datetime.fromisoformat() *)
isoformat(t) == [iso |-> t]
fromisoformat(s) == s.iso

(* Strings that the code inspects character by character are sequences of
   one-character strings. *)
Digits == {"0", "1", "2", "3", "4", "5", "6", "7", "8", "9"}
Whitespace == {" "}
Phone(d) == [i \in 1..MIN_PHONE_DIGITS |-> d]

RECURSIVE lstrip(_)
lstrip(s) ==
    IF s # <<>> /\ Head(s) \in Whitespace THEN lstrip(Tail(s)) ELSE s

RECURSIVE rstrip(_)
rstrip(s) ==
    IF s # <<>> /\ s[Len(s)] \in Whitespace
    THEN rstrip(SubSeq(s, 1, Len(s) - 1))
    ELSE s

strip(s) == rstrip(lstrip(s))

(* QuerySanitizer.sanitize_mongodb_query *)
DangerousPatterns == {"$", "{", "}", "[", "]"}
IsSafeChar(c) == c \notin DangerousPatterns
sanitize_mongodb_query(value) ==
    IF value = <<>> THEN <<>> ELSE strip(SelectSeq(value, IsSafeChar))

(* InputValidator.validate_phone *)
IsDigit(c) == c \in Digits
validate_phone(phone) ==
    /\ phone # <<>>
    /\ Len(SelectSeq(phone, IsDigit)) >= MIN_PHONE_DIGITS
    /\ Len(SelectSeq(phone, IsDigit)) <= MAX_PHONE_DIGITS

(* InputValidator.sanitize_string, on text without markup (bleach.clean
   leaves such text as it is): truncate, then strip *)
Take(s, n) == SubSeq(s, 1, IF Len(s) < n THEN Len(s) ELSE n)
sanitize_string(text, max_length) ==
    IF text = <<>> THEN <<>> ELSE strip(Take(text, max_length))

(* InputValidator.validate_file_upload.  A filename is the sequence of its
   parts between dots: <<"shot", "JPG">> is shot.JPG. *)
Lower(part) ==
    CASE part = "JPG" -> "jpg"
      [] part = "PNG" -> "png"
      [] OTHER -> part
AllowedTypes == {"image/jpeg", "image/jpg", "image/png", "image/webp"}
AllowedExtensions == {"jpg", "jpeg", "png", "webp"}
HasExtension(filename) == Len(filename) > 1
validate_file_upload(filename, content_type) ==
    IF filename = <<>> THEN "no_filename"
    ELSE IF ~(HasExtension(filename)
              /\ Lower(filename[Len(filename)]) \in AllowedExtensions)
         THEN "invalid_file_type"
    ELSE IF content_type \notin AllowedTypes THEN "invalid_content_type"
    ELSE "ok"

(* hash_password / verify_password: bcrypt accepts exactly the password that
   was hashed. *)
hash_password(password) == [bcrypt |-> password]
verify_password(password, hashed) == hashed.bcrypt = password

(* db.users.find_one({"contact": c}): the ids of the documents that match, and
   the one returned (the first in insertion order; ids grow with insertion) *)
FindAnyContact(c) == DOMAIN users

FindByContact(c) == {i \in DOMAIN users : users[i].contact = c}
FirstOf(ids) == CHOOSE i \in ids : \A j \in ids : i <= j

----------------------------------------------------------------------------
(* Documents *)

(* startup_event: the owner document, which has no failed_login_attempts,
   last_failed_login or last_login field *)
OwnerContact == Phone("9")
OwnerPassword == "owner-pw"
OwnerDoc ==
    [contact |-> OwnerContact,
     password_hash |-> hash_password(OwnerPassword),
     payment_paid |-> TRUE,
     payment_status |-> "paid",
     role |-> "owner",
     last_login |-> Absent,
     failed_login_attempts |-> Absent,
     last_failed_login |-> Absent]

(* register storing a new account as already awaiting approval *)
NewUserDocPending(contact, password) ==
    [contact |-> contact,
     password_hash |-> hash_password(password),
     payment_paid |-> FALSE,
     payment_status |-> "pending",
     role |-> "student",
     last_login |-> Absent,
     failed_login_attempts |-> Some(0),
     last_failed_login |-> Absent]

(* register: user_doc *)
NewUserDoc(contact, password) ==
    [contact |-> contact,
     password_hash |-> hash_password(password),
     payment_paid |-> FALSE,
     payment_status |-> "unpaid",
     role |-> "student",
     last_login |-> Absent,
     failed_login_attempts |-> Some(0),
     last_failed_login |-> Absent]

(* The latest request and its response.  user is the account the handler
   resolved, input what the request carried, lock the lockout state the
   handler saw, pwChecked whether verify_password was called. *)
Response(op, user, input, result) ==
    [op |-> op, user |-> user, input |-> input, result |-> result,
     lock |-> "none", pwChecked |-> FALSE]

LoginResponse(user, password, lock, pwChecked, result) ==
    [op |-> "login", user |-> user, input |-> Some([password |-> password]),
     result |-> result,
     lock |-> lock, pwChecked |-> pwChecked]

----------------------------------------------------------------------------
(* login: the lockout check, and the three updates of the users document *)

LockoutExpiredLate(t, last_failed) ==
    ~(t <= fromisoformat(last_failed) + LOCKOUT_DURATION_MINUTES)

LockoutExpiredWrongSign(t, last_failed) ==
    ~(t < fromisoformat(last_failed) - LOCKOUT_DURATION_MINUTES)

LockoutExpired(t, last_failed) ==
    ~(t < fromisoformat(last_failed) + LOCKOUT_DURATION_MINUTES)

LockedThresholdOffByOne(failed_attempts) ==
    failed_attempts > MAX_FAILED_LOGIN_ATTEMPTS

LockedThreshold(failed_attempts) == failed_attempts >= MAX_FAILED_LOGIN_ATTEMPTS

LockState(doc, t) ==
    IF LockedThreshold(Get(doc.failed_login_attempts, 0))
       /\ doc.last_failed_login # Absent
    THEN IF LockoutExpired(t, doc.last_failed_login[1]) THEN "expired" ELSE "locked"
    ELSE "open"

ResetFailed(doc) == [doc EXCEPT !.failed_login_attempts = Some(0)]

(* the failure counted without its time *)
RecordFailureUntimed(doc, t) ==
    [doc EXCEPT !.failed_login_attempts = Some(Get(@, 0) + 1)]

RecordFailure(doc, t) ==
    [doc EXCEPT !.failed_login_attempts = Some(Get(@, 0) + 1),
                !.last_failed_login = Some(isoformat(t))]

(* the success branch recording the login time only *)
RecordSuccessKeepCount(doc, t) ==
    [doc EXCEPT !.last_login = Some(isoformat(t))]

RecordSuccess(doc, t) ==
    [doc EXCEPT !.failed_login_attempts = Some(0),
                !.last_login = Some(isoformat(t))]

Passwords == {"pw-a", OwnerPassword}
LoginContacts == {Phone("7"), Phone("8"), <<"$">> \o Phone("7"), OwnerContact}

Login(contact, password) ==
    LET c == sanitize_mongodb_query(contact)
        ids == FindByContact(c)
    IN
    /\ UNCHANGED <<now, txns, nextId, approved, secvars>>
    /\ IF ids = {}
       THEN /\ last' = LoginResponse(Absent, password, "none", FALSE,
                                        "invalid_credentials")
            /\ UNCHANGED <<users, streak, failedAt>>
       ELSE LET id == FirstOf(ids)
                doc == users[id]
                state == LockState(doc, now)
                reset == IF state = "expired" THEN ResetFailed(doc) ELSE doc
            IN
            IF state = "locked"
            THEN /\ last' = LoginResponse(Some(id), password, state, FALSE,
                                             "account_locked")
                 /\ UNCHANGED <<users, streak, failedAt>>
            ELSE IF ~verify_password(password, doc.password_hash)
            THEN /\ users' = [users EXCEPT ![id] = RecordFailure(reset, now)]
                 /\ last' = LoginResponse(Some(id), password, state, TRUE,
                                             "invalid_credentials")
                 /\ streak' = [streak EXCEPT
                                  ![id] = (IF state = "expired" THEN 0 ELSE @) + 1]
                 /\ failedAt' = [failedAt EXCEPT ![id] = now]
            ELSE /\ users' = [users EXCEPT ![id] = RecordSuccess(reset, now)]
                 /\ last' = LoginResponse(Some(id), password, state, TRUE, "ok")
                 /\ streak' = [streak EXCEPT ![id] = 0]
                 /\ UNCHANGED failedAt

(* register.  A form carries the contact and the password; the name,
   password-strength and stream validations and the photo are inputs that
   either pass or fail. *)
RegisterContacts == {Phone("7"), Phone("8"), <<"$">> \o Phone("7"), <<"7">>}
LoginSpecContacts == {Phone("7"), <<"$">> \o Phone("7"), <<"7">>}
StudentPasswords == {"pw-a"}
CONTACT_MAX_LEN == 20
FormFaults ==
    {"none", "name", "password", "stream", "photo_type", "photo_size"}

RegisterContact(contact) ==
    sanitize_mongodb_query(sanitize_string(contact, CONTACT_MAX_LEN))

RegisterResult(contact, fault) ==
    IF fault = "name" THEN "invalid_name"
    ELSE IF ~validate_phone(sanitize_string(contact, CONTACT_MAX_LEN))
    THEN "invalid_phone"
    ELSE IF fault = "password" THEN "invalid_password"
    ELSE IF fault = "stream" THEN "invalid_stream"
    ELSE IF FindByContact(RegisterContact(contact)) # {} THEN "user_exists"
    ELSE IF fault = "photo_type" THEN "invalid_file"
    ELSE IF fault = "photo_size" THEN "file_too_large"
    ELSE "ok"

Register(contact, password, fault) ==
    LET result == RegisterResult(contact, fault)
        id == nextId + 1
    IN
    /\ nextId < MaxUsers
    /\ UNCHANGED <<now, txns, approved, secvars>>
    /\ IF result = "ok"
       THEN /\ users' = [i \in DOMAIN users \cup {id} |->
                           IF i = id
                           THEN NewUserDoc(RegisterContact(contact), password)
                           ELSE users[i]]
            /\ nextId' = id
            /\ streak' = [streak EXCEPT ![id] = 0]
            /\ failedAt' = [failedAt EXCEPT ![id] = 0]
            /\ last' = Response("register", Some(id), Absent, "ok")
       ELSE /\ last' = Response("register", Absent, Absent, result)
            /\ UNCHANGED <<users, nextId, streak, failedAt>>

----------------------------------------------------------------------------
(* Payment routes *)

TRANSACTION_ID_MAX_LEN == 50
Rep(c, n) == [i \in 1..n |-> c]
GoodTxnId == Rep("U", MIN_TRANSACTION_ID_LEN)
GoodFile == <<"shot", "JPG">>
Upload(transaction_id, filename, content_type, size) ==
    [transaction_id |-> transaction_id, filename |-> filename,
     content_type |-> content_type, size |-> size]
UploadInputs ==
    {Upload(GoodTxnId, GoodFile, "image/jpeg", 1024),
     Upload(GoodTxnId, <<"shot", "png">>, "image/png", MAX_UPLOAD_BYTES),
     Upload(GoodTxnId, GoodFile, "image/jpeg", MAX_UPLOAD_BYTES + 1),
     Upload(Rep("U", MIN_TRANSACTION_ID_LEN - 1) \o <<" ">>, GoodFile,
            "image/jpeg", 1024),
     Upload(<<>>, GoodFile, "image/jpeg", 1024),
     Upload(GoodTxnId, <<"shot", "exe">>, "image/jpeg", 1024),
     Upload(GoodTxnId, <<"shot">>, "image/jpeg", 1024),
     Upload(GoodTxnId, <<>>, "image/jpeg", 1024),
     Upload(GoodTxnId, GoodFile, "text/html", 1024)}

(* submit_upi_payment: the first check that fails, in the order of the code *)
SubmitAlreadyPaid(doc) == doc.payment_paid
SubmitAlreadyPendingTypo(doc) == doc.payment_status = "Pending"

SubmitAlreadyPending(doc) == doc.payment_status = "pending"
FileTooLarge(size) == size > MAX_UPLOAD_BYTES

SubmitResult(user_id, transaction_id, filename, content_type, size) ==
    LET tid == sanitize_string(transaction_id, TRANSACTION_ID_MAX_LEN) IN
    IF tid = <<>> \/ Len(tid) < MIN_TRANSACTION_ID_LEN
    THEN "invalid_transaction_id"
    ELSE IF validate_file_upload(filename, content_type) # "ok"
    THEN validate_file_upload(filename, content_type)
    ELSE IF user_id \notin DOMAIN users THEN "user_not_found"
    ELSE IF SubmitAlreadyPaid(users[user_id]) THEN "already_paid"
    ELSE IF SubmitAlreadyPending(users[user_id]) THEN "already_pending"
    ELSE IF FileTooLarge(size) THEN "file_too_large"
    ELSE "ok"

(* the transaction stored as already settled *)
TransactionDocSettled(user_id, transaction_id, t) ==
    [user_id |-> user_id,
     transaction_id |-> transaction_id,
     payment_method |-> "UPI",
     payment_status |-> "paid",
     created_at |-> isoformat(t),
     updated_at |-> Absent]

TransactionDoc(user_id, transaction_id, t) ==
    [user_id |-> user_id,
     transaction_id |-> transaction_id,
     payment_method |-> "UPI",
     payment_status |-> "pending",
     created_at |-> isoformat(t),
     updated_at |-> Absent]

(* the transaction stored before the evidence is measured *)
SubmitUpiInsertFirst(user_id, transaction_id, filename, content_type, size) ==
    LET result == SubmitResult(user_id, transaction_id, filename, content_type, size)
        tid == sanitize_string(transaction_id, TRANSACTION_ID_MAX_LEN)
    IN
    /\ Len(txns) < MaxTxns
    /\ last' = Response("submit", Some(user_id), Absent, result)
    /\ UNCHANGED <<now, nextId, streak, failedAt, approved, secvars>>
    /\ IF result \in {"ok", "file_too_large"}
       THEN /\ txns' = Append(txns, TransactionDoc(user_id, tid, now))
            /\ users' = [users EXCEPT ![user_id].payment_status = "pending"]
       ELSE UNCHANGED <<users, txns>>

SubmitUpi(user_id, transaction_id, filename, content_type, size) ==
    LET result == SubmitResult(user_id, transaction_id, filename, content_type, size)
        tid == sanitize_string(transaction_id, TRANSACTION_ID_MAX_LEN)
    IN
    /\ Len(txns) < MaxTxns
    /\ last' = Response("submit", Some(user_id), Absent, result)
    /\ UNCHANGED <<now, nextId, streak, failedAt, approved, secvars>>
    /\ IF result = "ok"
       THEN /\ txns' = Append(txns, TransactionDoc(user_id, tid, now))
            /\ users' = [users EXCEPT ![user_id].payment_status = "pending"]
       ELSE UNCHANGED <<users, txns>>

(* verify_owner: the caller of an admin route is the owner account *)
OwnerAuthorized ==
    OwnerId \in DOMAIN users /\ users[OwnerId].role = "owner"

(* approve_payment.  payment_paid and payment_status are optional. *)
PaidInputs == {Absent, Some(TRUE), Some(FALSE)}
StatusInputs ==
    {Absent, Some(""), Some("unpaid"), Some("pending"), Some("paid")}

AdminUserFields(doc, payment_paid, payment_status) ==
    [doc EXCEPT
       !.payment_paid = IF payment_paid # Absent THEN payment_paid[1] ELSE @,
       !.payment_status =
           IF payment_status # Absent /\ payment_status[1] # ""
           THEN payment_status[1] ELSE @]

(* update_one with an empty $set: the store accepts it or raises, by its
   version; nothing is written either way *)
AdminResults(payment_paid, payment_status) ==
    IF payment_paid = Absent /\ (payment_status = Absent \/ payment_status[1] = "")
    THEN {"ok", "server_error"}
    ELSE {"ok"}

AdminMarksTransactions(payment_paid) ==
    payment_paid # Absent /\ payment_paid[1]

(* the bulk update writing another status *)
MarkRejected(txn, t) ==
    [txn EXCEPT !.payment_status = "rejected", !.updated_at = Some(isoformat(t))]

MarkPaid(txn, t) ==
    [txn EXCEPT !.payment_status = "paid", !.updated_at = Some(isoformat(t))]

ApprovePayment(user_id, payment_paid, payment_status) ==
    /\ UNCHANGED <<now, nextId, streak, failedAt, secvars>>
    /\ IF ~OwnerAuthorized
       THEN /\ last' = Response("admin", Some(user_id), Absent, "forbidden")
            /\ UNCHANGED <<users, txns, approved>>
       ELSE /\ \E result \in AdminResults(payment_paid, payment_status) :
                 last' = Response("admin", Some(user_id), Absent, result)
            /\ users' = [i \in DOMAIN users |->
                           IF i = user_id
                           THEN AdminUserFields(users[i], payment_paid, payment_status)
                           ELSE users[i]]
            /\ txns' = [k \in 1..Len(txns) |->
                          IF /\ AdminMarksTransactions(payment_paid)
                             /\ txns[k].user_id = user_id
                             /\ txns[k].payment_status = "pending"
                          THEN MarkPaid(txns[k], now)
                          ELSE txns[k]]
            /\ approved' =
                  IF /\ payment_paid = Some(TRUE)
                     /\ user_id \in DOMAIN users
                     /\ \E k \in 1..Len(txns) :
                           /\ txns[k].user_id = user_id
                           /\ txns[k].payment_status = "pending"
                  THEN approved \cup {user_id}
                  ELSE approved

(* delete_user taking the account's transactions with it *)
DeleteUserCascade(user_id) ==
    /\ UNCHANGED <<now, nextId, streak, failedAt, approved, secvars>>
    /\ IF ~OwnerAuthorized
       THEN /\ last' = Response("delete", Some(user_id), Absent, "forbidden")
            /\ UNCHANGED <<users, txns>>
       ELSE IF user_id \notin DOMAIN users
       THEN /\ last' = Response("delete", Some(user_id), Absent, "user_not_found")
            /\ UNCHANGED <<users, txns>>
       ELSE /\ last' = Response("delete", Some(user_id), Absent, "ok")
            /\ users' = [i \in DOMAIN users \ {user_id} |-> users[i]]
            /\ txns' = SelectSeq(txns, LAMBDA t : t.user_id # user_id)

(* delete_user *)
DeleteUser(user_id) ==
    /\ UNCHANGED <<now, txns, nextId, streak, failedAt, approved, secvars>>
    /\ IF ~OwnerAuthorized
       THEN /\ last' = Response("delete", Some(user_id), Absent, "forbidden")
            /\ UNCHANGED users
       ELSE IF user_id \notin DOMAIN users
       THEN /\ last' = Response("delete", Some(user_id), Absent, "user_not_found")
            /\ UNCHANGED users
       ELSE /\ last' = Response("delete", Some(user_id), Absent, "ok")
            /\ users' = [i \in DOMAIN users \ {user_id} |-> users[i]]

(* The clock *)
TickSteps == {LOCKOUT_DURATION_MINUTES - 1, LOCKOUT_DURATION_MINUTES}

Tick(d) ==
    /\ now + d <= MaxTime
    /\ now' = now + d
    /\ last' = Response("tick", Absent, Absent, "ok")
    /\ UNCHANGED <<users, txns, nextId, streak, failedAt, approved, secvars>>

----------------------------------------------------------------------------
(* Profile routes: get_profile, update_profile, get_payment_status *)

ProfileKeys ==
    {"name", "college", "class_name", "stream", "coaching_center", "photo"}

Form(name, college, class_name, stream, coaching_center, photo) ==
    [name |-> name, college |-> college, class_name |-> class_name,
     stream |-> stream, coaching_center |-> coaching_center, photo |-> photo]

ProfileForms ==
    {Form(Absent, Absent, Absent, Absent, Absent, Absent),
     Form(Some(""), Absent, Absent, Absent, Absent, Absent),
     Form(Some("Asha"), Absent, Absent, Some("Science"), Absent, Absent),
     Form(Absent, Some(""), Absent, Absent, Absent, Some("png-bytes"))}

(* "if name:": a form field that was sent and is not empty *)
Truthy(field) == field # Absent /\ field[1] # ""

b64encode(data) == [b64 |-> data]

update_data(form) ==
    [k \in {key \in ProfileKeys : Truthy(form[key])} |->
        IF k = "photo" THEN b64encode(form[k][1]) ELSE form[k][1]]

(* {"$set": update_data} on a document *)
SetFields(doc, data) ==
    [k \in DOMAIN doc \cup DOMAIN data |->
        IF k \in DOMAIN data THEN data[k] ELSE doc[k]]

GetProfile(user_id) ==
    /\ last' = Response("get_profile", Some(user_id), Absent,
                        IF user_id \in DOMAIN users THEN "ok" ELSE "user_not_found")
    /\ UNCHANGED <<now, users, txns, nextId, streak, failedAt, approved, secvars>>

UpdateProfile(user_id, form) ==
    LET data == update_data(form) IN
    /\ UNCHANGED <<now, txns, nextId, streak, failedAt, approved, secvars>>
    /\ IF DOMAIN data = {}
       THEN /\ last' = Response("update_profile", Some(user_id), Absent,
                                "no_data")
            /\ UNCHANGED users
       ELSE /\ last' = Response("update_profile", Some(user_id), Absent, "ok")
            /\ users' = [i \in DOMAIN users |->
                           IF i = user_id THEN SetFields(users[i], data)
                           ELSE users[i]]

GetPaymentStatus(user_id) ==
    /\ last' = Response("get_payment_status", Some(user_id), Absent,
                        IF user_id \in DOMAIN users
                        THEN [payment_paid |-> users[user_id].payment_paid,
                              payment_status |-> users[user_id].payment_status]
                        ELSE "user_not_found")
    /\ UNCHANGED <<now, users, txns, nextId, streak, failedAt, approved, secvars>>

----------------------------------------------------------------------------
(* IPSecurityMonitor (src/backend/advanced_security.py): class-level,
   in-memory state shared by every caller *)

MAX_FAILED_REQUESTS_PER_IP == 50
IP_BLACKLIST_DURATION_HOURS == 24

(* timedelta(hours=h) and timedelta(days=d), in minutes *)
hours(h) == h * 60
days(d) == hours(d * 24)

Addresses == {"10.0.0.1", "10.0.0.2"}

(* cls._failed_attempts[ip] of a defaultdict(list): reading a missing key
   yields the empty list *)
AttemptsOf(ip) ==
    IF ip \in DOMAIN ip_failed_attempts THEN ip_failed_attempts[ip] ELSE <<>>

(* "now - t < timedelta(hours=1)": the attempts a cleaning pass keeps *)
RecentEnoughInclusive(t, at) == at - t <= hours(1)

RecentEnough(t, at) == at - t < hours(1)

CleanOld(attempts, at) == SelectSeq(attempts, LAMBDA t : RecentEnough(t, at))

OverLimitAtLimit(attempts) == Len(attempts) >= MAX_FAILED_REQUESTS_PER_IP

OverLimit(attempts) == Len(attempts) > MAX_FAILED_REQUESTS_PER_IP

BlacklistExpiryShort(at) == at + hours(IP_BLACKLIST_DURATION_HOURS - 1)

BlacklistExpiry(at) == at + hours(IP_BLACKLIST_DURATION_HOURS)

Call(op, key, value) == Response(op, Absent, Some([key |-> key]), value)

(* history: the attempts of the trailing hour, this one included, number
   at least 51 *)
CrossesAt(ip, at) ==
    Cardinality({i \in 1..Len(AttemptsOf(ip)) : at - AttemptsOf(ip)[i] < 60})
        + 1 >= 51

(* an address already blacklisted keeps the expiry it has *)
record_failed_attempt_once(ip) ==
    LET kept == CleanOld(Append(AttemptsOf(ip), now), now) IN
    /\ ip_failed_attempts' =
          [k \in DOMAIN ip_failed_attempts \cup {ip} |->
              IF k = ip THEN kept ELSE ip_failed_attempts[k]]
    /\ blacklisted_ips' =
          IF OverLimit(kept) /\ ip \notin DOMAIN blacklisted_ips
          THEN [k \in DOMAIN blacklisted_ips \cup {ip} |->
                   IF k = ip THEN BlacklistExpiry(now) ELSE blacklisted_ips[k]]
          ELSE blacklisted_ips
    /\ crossedAt' = IF CrossesAt(ip, now)
                    THEN [crossedAt EXCEPT ![ip] = Some(now)]
                    ELSE crossedAt
    /\ last' = Call("record_failed_attempt", ip, "None")
    /\ UNCHANGED <<now, users, txns, nextId, streak, failedAt, approved,
                   request_patterns, second, tokvars, sessvars, racevars>>

record_failed_attempt(ip) ==
    LET kept == CleanOld(Append(AttemptsOf(ip), now), now) IN
    /\ ip_failed_attempts' =
          [k \in DOMAIN ip_failed_attempts \cup {ip} |->
              IF k = ip THEN kept ELSE ip_failed_attempts[k]]
    /\ blacklisted_ips' =
          IF OverLimit(kept)
          THEN [k \in DOMAIN blacklisted_ips \cup {ip} |->
                   IF k = ip THEN BlacklistExpiry(now) ELSE blacklisted_ips[k]]
          ELSE blacklisted_ips
    /\ crossedAt' = IF CrossesAt(ip, now)
                    THEN [crossedAt EXCEPT ![ip] = Some(now)]
                    ELSE crossedAt
    /\ last' = Call("record_failed_attempt", ip, "None")
    /\ UNCHANGED <<now, users, txns, nextId, streak, failedAt, approved,
                   request_patterns, second, tokvars, sessvars, racevars>>

BlacklistLive(expiry, at) == at < expiry

(* every expired entry dropped, as TokenBlacklist._cleanup_expired does *)
IP_is_blacklisted_sweeping(ip) ==
    /\ last' = Call("is_blacklisted", ip,
                    ip \in DOMAIN blacklisted_ips
                    /\ BlacklistLive(blacklisted_ips[ip], now))
    /\ blacklisted_ips' =
          [k \in {a \in DOMAIN blacklisted_ips :
                     BlacklistLive(blacklisted_ips[a], now)} |->
              blacklisted_ips[k]]
    /\ UNCHANGED <<now, users, txns, nextId, streak, failedAt, approved,
                   ip_failed_attempts, events, crossedAt,
                   request_patterns, second, tokvars, sessvars, racevars>>

IP_is_blacklisted(ip) ==
    /\ IF ip \in DOMAIN blacklisted_ips
       THEN IF BlacklistLive(blacklisted_ips[ip], now)
            THEN /\ last' = Call("is_blacklisted", ip, TRUE)
                 /\ UNCHANGED blacklisted_ips
            ELSE /\ last' = Call("is_blacklisted", ip, FALSE)
                 /\ blacklisted_ips' =
                       [k \in DOMAIN blacklisted_ips \ {ip} |-> blacklisted_ips[k]]
       ELSE /\ last' = Call("is_blacklisted", ip, FALSE)
            /\ UNCHANGED blacklisted_ips
    /\ UNCHANGED <<now, users, txns, nextId, streak, failedAt, approved,
                   ip_failed_attempts, events, crossedAt,
                   request_patterns, second, tokvars, sessvars, racevars>>

get_failed_attempts(ip) ==
    LET kept == CleanOld(AttemptsOf(ip), now) IN
    /\ ip_failed_attempts' =
          [k \in DOMAIN ip_failed_attempts \cup {ip} |->
              IF k = ip THEN kept ELSE ip_failed_attempts[k]]
    /\ last' = Call("get_failed_attempts", ip, Len(kept))
    /\ UNCHANGED <<now, users, txns, nextId, streak, failedAt, approved,
                   blacklisted_ips, events, crossedAt,
                   request_patterns, second, tokvars, sessvars, racevars>>

(* The clock of the address monitor's runs *)
Advance(d, until) ==
    /\ now + d <= until
    /\ now' = now + d
    /\ last' = Response("tick", Absent, Absent, "ok")
    /\ UNCHANGED <<users, txns, nextId, streak, failedAt, approved, secvars>>

----------------------------------------------------------------------------
(* AntiAutomationDetector (src/backend/advanced_security.py).  The gaps it
   averages are in seconds: a request's timestamp is the clock in seconds,
   60 to the minute of now plus the seconds past it. *)

RAPID_REQUESTS_PER_HOUR == 100
RECENT_REQUESTS == 10
RAPID_GAP_SECONDS == 1

Endpoints == {"/api/login"}

seconds(minutes) == minutes * 60
DetectorNow == seconds(now) + second

(* (a - b).total_seconds() of two timestamps *)
total_seconds(a, b) == a - b

(* cls._request_patterns[ip] of a defaultdict(list) *)
RequestsOf(ip) ==
    IF ip \in DOMAIN request_patterns THEN request_patterns[ip] ELSE <<>>

(* "now - r['timestamp'] < timedelta(hours=1)" *)
RequestRecent(r, at) == total_seconds(at, r.timestamp) < seconds(hours(1))

record_request(ip, endpoint) ==
    LET appended == Append(RequestsOf(ip),
                           [endpoint |-> endpoint, timestamp |-> DetectorNow])
        kept == SelectSeq(appended, LAMBDA r : RequestRecent(r, DetectorNow))
    IN
    /\ request_patterns' =
          [k \in DOMAIN request_patterns \cup {ip} |->
              IF k = ip THEN kept ELSE request_patterns[k]]
    /\ last' = Call("record_request", ip, "None")
    /\ UNCHANGED <<now, users, txns, nextId, streak, failedAt, approved,
                   ip_failed_attempts, blacklisted_ips, events, crossedAt,
                   second, tokvars, sessvars, racevars>>

(* requests[-10:] *)
LastOf(requests, n) ==
    SubSeq(requests, IF Len(requests) > n THEN Len(requests) - n + 1 ELSE 1,
           Len(requests))

(* sum(time_diffs), for the timestamps of consecutive requests *)
RECURSIVE SumDiffs(_)
SumDiffs(timestamps) ==
    IF Len(timestamps) < 2 THEN 0
    ELSE total_seconds(timestamps[2], timestamps[1]) + SumDiffs(Tail(timestamps))

(* avg_diff < 1, where avg_diff = sum(time_diffs) / len(time_diffs) *)
RapidOnAverage(timestamps) ==
    SumDiffs(timestamps) < RAPID_GAP_SECONDS * (Len(timestamps) - 1)

Suspicious(requests) ==
    LET timestamps ==
           [i \in 1..Len(LastOf(requests, RECENT_REQUESTS)) |->
               LastOf(requests, RECENT_REQUESTS)[i].timestamp]
    IN
    /\ Len(requests) > RAPID_REQUESTS_PER_HOUR
    /\ Len(timestamps) >= 2
    /\ RapidOnAverage(timestamps)

is_suspicious_pattern(ip) ==
    /\ last' = Call("is_suspicious_pattern", ip,
                    IF ip \notin DOMAIN request_patterns THEN FALSE
                    ELSE Suspicious(request_patterns[ip]))
    /\ UNCHANGED <<now, users, txns, nextId, streak, failedAt, approved,
                   secvars>>

(* The seconds of the clock *)
Second(d) ==
    /\ second + d <= MaxSecond
    /\ second' = second + d
    /\ last' = Response("tick", Absent, Absent, "ok")
    /\ UNCHANGED <<now, users, txns, nextId, streak, failedAt, approved,
                   ip_failed_attempts, blacklisted_ips, events, crossedAt,
                   request_patterns, tokvars, sessvars, racevars>>

----------------------------------------------------------------------------
(* SessionSecurityManager (src/backend/advanced_security.py).  A session id
   is secrets.token_urlsafe(32), never repeated: the n-th session has id n.
   validate_session reads the two switches of AdvancedSecurityConfig on
   every call. *)

UserAgents == {"Mozilla/5.0", "curl/8"}
SessionIds == 1..MaxSessions
Switches ==
    [REQUIRE_IP_CONSISTENCY : BOOLEAN, REQUIRE_USER_AGENT_CONSISTENCY : BOOLEAN]

Session(user_id, ip, user_agent, at) ==
    [user_id |-> user_id, ip |-> ip, user_agent |-> user_agent,
     created_at |-> at, last_activity |-> at]

create_session(user_id, ip, user_agent) ==
    LET session_id == Cardinality(DOMAIN sessions) + 1 IN
    /\ session_id \in SessionIds
    /\ sessions' = [k \in DOMAIN sessions \cup {session_id} |->
                       IF k = session_id
                       THEN Session(user_id, ip, user_agent, now)
                       ELSE sessions[k]]
    /\ last' = Response("create_session", Some(user_id),
                        Some([session_id |-> session_id, ip |-> ip,
                              user_agent |-> user_agent]),
                        session_id)
    /\ UNCHANGED <<now, users, txns, nextId, streak, failedAt, approved,
                   ipvars, tokvars, config, racevars>>

(* the checks of validate_session on a stored session, in the code's order *)
SessionVerdictAgentFirst(session, ip, user_agent) ==
    IF config.REQUIRE_USER_AGENT_CONSISTENCY /\ session.user_agent # user_agent
    THEN "User agent mismatch - potential session hijacking"
    ELSE IF config.REQUIRE_IP_CONSISTENCY /\ session.ip # ip
    THEN "IP address mismatch - potential session hijacking"
    ELSE ""

SessionVerdict(session, ip, user_agent) ==
    IF config.REQUIRE_IP_CONSISTENCY /\ session.ip # ip
    THEN "IP address mismatch - potential session hijacking"
    ELSE IF config.REQUIRE_USER_AGENT_CONSISTENCY /\ session.user_agent # user_agent
    THEN "User agent mismatch - potential session hijacking"
    ELSE ""

(* validate_session removing the session on a mismatch *)
validate_session_revoking(session_id, ip, user_agent) ==
    LET request == Some([session_id |-> session_id, ip |-> ip,
                         user_agent |-> user_agent])
    IN
    /\ UNCHANGED <<now, users, txns, nextId, streak, failedAt, approved,
                   ipvars, tokvars, config, racevars>>
    /\ IF session_id \notin DOMAIN sessions
       THEN /\ last' = Response("validate_session", Absent, request,
                                <<FALSE, "Invalid session">>)
            /\ UNCHANGED sessions
       ELSE LET message == SessionVerdict(sessions[session_id], ip, user_agent) IN
            IF message # ""
            THEN /\ last' = Response("validate_session", Absent, request,
                                     <<FALSE, message>>)
                 /\ sessions' = [k \in DOMAIN sessions \ {session_id} |->
                                    sessions[k]]
            ELSE /\ sessions' = [sessions EXCEPT ![session_id].last_activity = now]
                 /\ last' = Response("validate_session", Absent, request,
                                     <<TRUE, "">>)

validate_session(session_id, ip, user_agent) ==
    LET request == Some([session_id |-> session_id, ip |-> ip,
                         user_agent |-> user_agent])
    IN
    /\ UNCHANGED <<now, users, txns, nextId, streak, failedAt, approved,
                   ipvars, tokvars, config, racevars>>
    /\ IF session_id \notin DOMAIN sessions
       THEN /\ last' = Response("validate_session", Absent, request,
                                <<FALSE, "Invalid session">>)
            /\ UNCHANGED sessions
       ELSE LET message == SessionVerdict(sessions[session_id], ip, user_agent) IN
            IF message # ""
            THEN /\ last' = Response("validate_session", Absent, request,
                                     <<FALSE, message>>)
                 /\ UNCHANGED sessions
            ELSE /\ sessions' = [sessions EXCEPT ![session_id].last_activity = now]
                 /\ last' = Response("validate_session", Absent, request,
                                     <<TRUE, "">>)

----------------------------------------------------------------------------
(* login, one database call at a time.  Between two awaits the handler
   runs on its own; each await (find_one, update_one) is one step, applied
   to the document as the store holds it at that step.  A request keeps the
   document it read (user_doc) and the timestamp it put in its update. *)

Procs == {"r1", "r2"}

IdleProc ==
    [pc |-> "idle", password |-> "", id |-> OwnerId,
     user_doc |-> Absent, lock |-> "none", stamp |-> 0]

AllIdle == \A p \in Procs : procs[p].pc = "idle"

EmptyBatch(base, started) ==
    [base |-> base, wrong |-> 0, right |-> 0, expired |-> 0, other |-> 0,
     started |-> started]

(* history: a request joins the batch under the lockout state it saw;
   started counts the requests made so far *)
Joined(state, wrong) ==
    LET b == IF AllIdle
             THEN EmptyBatch(IF OwnerId \in DOMAIN users
                             THEN Get(users[OwnerId].failed_login_attempts, 0)
                             ELSE 0,
                             batch.started)
             ELSE batch
    IN  [b EXCEPT
           !.started = @ + 1,
           !.wrong = @ + (IF state \in {"open", "expired"} /\ wrong THEN 1 ELSE 0),
           !.right = @ + (IF state \in {"open", "expired"} /\ ~wrong THEN 1 ELSE 0),
           !.expired = @ + (IF state = "expired" THEN 1 ELSE 0),
           !.other = @ + (IF state \in {"open", "expired"} THEN 0 ELSE 1)]

AfterPasswordCheck(password, user_doc) ==
    IF verify_password(password, user_doc.password_hash) THEN "success" ELSE "fail"

(* await db.users.find_one, then the lockout check on the document read *)
LoginFind(p, contact, password) ==
    LET c == sanitize_mongodb_query(contact)
        ids == FindByContact(c)
    IN
    /\ procs[p].pc = "idle"
    /\ batch.started < MaxLogins
    /\ UNCHANGED <<now, users, txns, nextId, streak, failedAt, approved,
                   ipvars, tokvars, sessvars, regs, pays>>
    /\ IF ids = {}
       THEN /\ last' = LoginResponse(Absent, password, "none", FALSE,
                                        "invalid_credentials")
            /\ procs' = [procs EXCEPT ![p] = IdleProc]
            /\ batch' = Joined("none", FALSE)
       ELSE LET id == FirstOf(ids)
                doc == users[id]
                state == LockState(doc, now)
                wrong == ~verify_password(password, doc.password_hash)
            IN
            /\ batch' = Joined(state, wrong)
            /\ IF state = "locked"
               THEN /\ last' = LoginResponse(Some(id), password, state, FALSE,
                                                "account_locked")
                    /\ procs' = [procs EXCEPT ![p] = IdleProc]
               ELSE /\ last' = Response("find_one", Some(id), Absent, "pending")
                    /\ procs' = [procs EXCEPT ![p] =
                          [pc |-> IF state = "expired" THEN "reset"
                                  ELSE AfterPasswordCheck(password, doc),
                           password |-> password, id |-> id,
                           user_doc |-> Some(doc), lock |-> state,
                           stamp |-> now]]

(* update_one: the document with this id, if the store holds one, becomes
   the changed document *)
UpdateOne(id, changed) ==
    [i \in DOMAIN users |-> IF i = id THEN changed ELSE users[i]]

(* await db.users.update_one: $set failed_login_attempts 0 after an expired
   lockout; the password check follows *)
LoginReset(p) ==
    LET r == procs[p] IN
    /\ r.pc = "reset"
    /\ users' = UpdateOne(r.id, ResetFailed(users[r.id]))
    /\ streak' = [streak EXCEPT ![r.id] = 0]
    /\ procs' = [procs EXCEPT ![p].pc = AfterPasswordCheck(r.password, r.user_doc[1]),
                              ![p].stamp = now]
    /\ last' = Response("update_one", Some(r.id), Absent, "pending")
    /\ UNCHANGED <<now, txns, nextId, failedAt, approved,
                   ipvars, tokvars, sessvars, batch, regs, pays>>

(* the failure branch writing back the count it read, plus one *)
LoginFailFromRead(p) ==
    LET r == procs[p]
        changed ==
            [users[r.id] EXCEPT
               !.failed_login_attempts =
                   Some(Get(r.user_doc[1].failed_login_attempts, 0) + 1),
               !.last_failed_login = Some(isoformat(r.stamp))]
    IN
    /\ r.pc = "fail"
    /\ users' = UpdateOne(r.id, changed)
    /\ streak' = [streak EXCEPT ![r.id] = @ + 1]
    /\ failedAt' = [failedAt EXCEPT ![r.id] = r.stamp]
    /\ procs' = [procs EXCEPT ![p] = IdleProc]
    /\ last' = LoginResponse(Some(r.id), r.password, r.lock, TRUE,
                             "invalid_credentials")
    /\ UNCHANGED <<now, txns, nextId, approved, ipvars, tokvars, sessvars, batch,
                   regs, pays>>

(* await db.users.update_one: $inc failed_login_attempts, $set
   last_failed_login; then 401 *)
LoginFail(p) ==
    LET r == procs[p] IN
    /\ r.pc = "fail"
    /\ users' = UpdateOne(r.id, RecordFailure(users[r.id], r.stamp))
    /\ streak' = [streak EXCEPT ![r.id] = @ + 1]
    /\ failedAt' = [failedAt EXCEPT ![r.id] = r.stamp]
    /\ procs' = [procs EXCEPT ![p] = IdleProc]
    /\ last' = LoginResponse(Some(r.id), r.password, r.lock, TRUE,
                             "invalid_credentials")
    /\ UNCHANGED <<now, txns, nextId, approved, ipvars, tokvars, sessvars, batch,
                   regs, pays>>

(* await db.users.update_one: $set failed_login_attempts 0 and last_login;
   then the token and 200 *)
LoginSucceed(p) ==
    LET r == procs[p] IN
    /\ r.pc = "success"
    /\ users' = UpdateOne(r.id, RecordSuccess(users[r.id], r.stamp))
    /\ streak' = [streak EXCEPT ![r.id] = 0]
    /\ procs' = [procs EXCEPT ![p] = IdleProc]
    /\ last' = LoginResponse(Some(r.id), r.password, r.lock, TRUE, "ok")
    /\ UNCHANGED <<now, txns, nextId, failedAt, approved,
                   ipvars, tokvars, sessvars, batch, regs, pays>>

----------------------------------------------------------------------------
(* register, one database call at a time: the validations,
   await db.users.find_one and the check of the photo's type are one step;
   await photo.read() (which touches nothing shared), the check of the
   photo's size and await db.users.insert_one are the next *)

IdleReg == [pc |-> "idle", contact |-> <<>>, password |-> "", fault |-> "none"]

RegisterFind(p, contact, password, fault) ==
    LET result == RegisterResult(contact, fault) IN
    /\ regs[p].pc = "idle"
    /\ UNCHANGED <<now, users, txns, nextId, streak, failedAt, approved,
                   ipvars, tokvars, sessvars, procs, batch, pays>>
    /\ IF result \in {"ok", "file_too_large"}
       THEN /\ regs' = [regs EXCEPT ![p] =
                          [pc |-> "insert",
                           contact |-> RegisterContact(contact),
                           password |-> password, fault |-> fault]]
            /\ last' = Response("find_one", Absent, Absent, "pending")
       ELSE /\ regs' = [regs EXCEPT ![p] = IdleReg]
            /\ last' = Response("register", Absent, Absent, result)

(* insert_one adds the document whatever the collection holds *)
InsertOne(id, doc) ==
    [i \in DOMAIN users \cup {id} |-> IF i = id THEN doc ELSE users[i]]

RegisterInsert(p) ==
    LET r == regs[p]
        id == nextId + 1
    IN
    /\ r.pc = "insert"
    /\ regs' = [regs EXCEPT ![p] = IdleReg]
    /\ UNCHANGED <<now, txns, approved, ipvars, tokvars, sessvars, procs, batch, pays>>
    /\ IF r.fault = "photo_size"
       THEN /\ last' = Response("register", Absent, Absent, "file_too_large")
            /\ UNCHANGED <<users, nextId, streak, failedAt>>
       ELSE /\ nextId < MaxRegistrations
            /\ users' = InsertOne(id, NewUserDoc(r.contact, r.password))
            /\ nextId' = id
            /\ streak' = [i \in DOMAIN streak \cup {id} |->
                            IF i = id THEN 0 ELSE streak[i]]
            /\ failedAt' = [i \in DOMAIN failedAt \cup {id} |->
                              IF i = id THEN 0 ELSE failedAt[i]]
            /\ last' = Response("register", Some(id), Absent, "ok")

----------------------------------------------------------------------------
(* submit_upi_payment and approve_payment, one database call at a time.
   submit: the validations, await db.users.find_one, the checks on the
   document, await screenshot.read() (which touches nothing shared) and the
   size check are one step; insert_one and update_one are one step each.
   approve: verify_owner and update_one on db.users are one step, update_many
   on db.payment_transactions the next. *)

IdleSubmit == [pc |-> "idle", user_id |-> OwnerId, transaction_id |-> <<>>]
IdleAdmin == [pc |-> "idle", user_id |-> OwnerId]
IdlePays == [submit |-> IdleSubmit, admin |-> IdleAdmin, raced |-> Absent]

(* history: a request that starts while nothing is in flight starts a new
   round; a submission in flight and an update setting payment_paid true in
   flight for the same account have raced *)
Round == IF pays.submit.pc = "idle" /\ pays.admin.pc = "idle"
         THEN Absent ELSE pays.raced

SubmitFind(user_id, transaction_id, filename, content_type, size) ==
    LET result == SubmitResult(user_id, transaction_id, filename, content_type, size)
        tid == sanitize_string(transaction_id, TRANSACTION_ID_MAX_LEN)
    IN
    /\ pays.submit.pc = "idle"
    /\ Len(txns) < MaxTxns
    /\ UNCHANGED <<now, users, txns, nextId, streak, failedAt, approved,
                   ipvars, tokvars, sessvars, procs, batch, regs>>
    /\ IF result = "ok"
       THEN /\ pays' = [pays EXCEPT
                          !.submit = [pc |-> "insert", user_id |-> user_id,
                                      transaction_id |-> tid],
                          !.raced = IF pays.admin.pc = "txns"
                                       /\ pays.admin.user_id = user_id
                                    THEN Some(user_id) ELSE Round]
            /\ last' = Response("find_one", Some(user_id), Absent, "pending")
       ELSE /\ pays' = [pays EXCEPT !.raced = Round]
            /\ last' = Response("submit", Some(user_id), Absent, result)

SubmitInsert ==
    LET r == pays.submit IN
    /\ r.pc = "insert"
    /\ txns' = Append(txns, TransactionDoc(r.user_id, r.transaction_id, now))
    /\ pays' = [pays EXCEPT !.submit.pc = "update"]
    /\ last' = Response("insert_one", Some(r.user_id), Absent, "pending")
    /\ UNCHANGED <<now, users, nextId, streak, failedAt, approved,
                   ipvars, tokvars, sessvars, procs, batch, regs>>

SubmitUpdate ==
    LET r == pays.submit IN
    /\ r.pc = "update"
    /\ users' = [i \in DOMAIN users |->
                   IF i = r.user_id
                   THEN [users[i] EXCEPT !.payment_status = "pending"]
                   ELSE users[i]]
    /\ pays' = [pays EXCEPT !.submit = IdleSubmit]
    /\ last' = Response("submit", Some(r.user_id), Absent, "ok")
    /\ UNCHANGED <<now, txns, nextId, streak, failedAt, approved,
                   ipvars, tokvars, sessvars, procs, batch, regs>>

ApproveUsers(user_id, payment_paid, payment_status) ==
    /\ pays.admin.pc = "idle"
    /\ UNCHANGED <<now, txns, nextId, streak, failedAt, approved,
                   ipvars, tokvars, sessvars, procs, batch, regs>>
    /\ IF ~OwnerAuthorized
       THEN /\ last' = Response("admin", Some(user_id), Absent, "forbidden")
            /\ pays' = [pays EXCEPT !.raced = Round]
            /\ UNCHANGED users
       ELSE /\ users' = [i \in DOMAIN users |->
                           IF i = user_id
                           THEN AdminUserFields(users[i], payment_paid, payment_status)
                           ELSE users[i]]
            /\ IF AdminMarksTransactions(payment_paid)
               THEN /\ pays' = [pays EXCEPT
                                  !.admin = [pc |-> "txns", user_id |-> user_id],
                                  !.raced = IF pays.submit.pc # "idle"
                                               /\ pays.submit.user_id = user_id
                                            THEN Some(user_id) ELSE Round]
                    /\ last' = Response("update_one", Some(user_id), Absent,
                                        "pending")
               ELSE /\ pays' = [pays EXCEPT !.raced = Round]
                    /\ \E result \in AdminResults(payment_paid, payment_status) :
                          last' = Response("admin", Some(user_id), Absent, result)

ApproveTxns ==
    LET r == pays.admin IN
    /\ r.pc = "txns"
    /\ txns' = [k \in 1..Len(txns) |->
                  IF /\ txns[k].user_id = r.user_id
                     /\ txns[k].payment_status = "pending"
                  THEN MarkPaid(txns[k], now)
                  ELSE txns[k]]
    /\ approved' = IF /\ r.user_id \in DOMAIN users
                      /\ \E k \in 1..Len(txns) :
                            /\ txns[k].user_id = r.user_id
                            /\ txns[k].payment_status = "pending"
                   THEN approved \cup {r.user_id}
                   ELSE approved
    /\ pays' = [pays EXCEPT !.admin = IdleAdmin]
    /\ last' = Response("admin", Some(r.user_id), Absent, "ok")
    /\ UNCHANGED <<now, users, nextId, streak, failedAt,
                   ipvars, tokvars, sessvars, procs, batch, regs>>

----------------------------------------------------------------------------
InitState ==
    /\ now = 0
    /\ users = [i \in {OwnerId} |-> OwnerDoc]
    /\ txns = <<>>
    /\ nextId = 0
    /\ last = Response("startup", Absent, Absent, "ok")
    /\ streak = [i \in {OwnerId} \cup StudentIds |-> 0]
    /\ failedAt = [i \in {OwnerId} \cup StudentIds |-> 0]
    /\ approved = {}
    /\ ip_failed_attempts = [ip \in {} |-> <<>>]
    /\ blacklisted_ips = [ip \in {} |-> 0]
    /\ events = [ip \in Addresses |-> <<>>]
    /\ crossedAt = [ip \in Addresses |-> Absent]
    /\ request_patterns = [ip \in {} |-> <<>>]
    /\ second = 0
    /\ token_blacklist = {}
    /\ blacklist_timestamps = [t \in {} |-> 0]
    /\ issued = {}
    /\ revocations = {}
    /\ sessions = [sid \in {} |-> 0]
    /\ procs = [p \in Procs |-> IdleProc]
    /\ batch = EmptyBatch(0, 0)
    /\ regs = [p \in Procs |-> IdleReg]
    /\ pays = IdlePays

DefaultSwitches ==
    [REQUIRE_IP_CONSISTENCY |-> TRUE, REQUIRE_USER_AGENT_CONSISTENCY |-> TRUE]

Init == InitState /\ config = DefaultSwitches

(* a deployment with the switches set otherwise *)
InitSession == InitState /\ config \in Switches

NextLogin ==
    \/ \E c \in LoginContacts, p \in Passwords : Login(c, p)
    \/ \E c \in LoginSpecContacts, p \in StudentPasswords, f \in FormFaults :
            Register(c, p, f)
    \/ \E d \in TickSteps : Tick(d)

SpecLogin == Init /\ [][NextLogin]_vars

(* The ids a request can name: the owner's and those handed out so far (a
   bearer token names an account that was registered; it may be deleted) *)
IssuedIds == {OwnerId} \cup 1..nextId
PaySpecContacts == {Phone("7")}
PaySpecFaults == {"none", "stream"}

NextPay ==
    \/ \E c \in PaySpecContacts, p \in StudentPasswords, f \in PaySpecFaults :
            Register(c, p, f)
    \/ \E u \in IssuedIds, f \in UploadInputs :
            SubmitUpi(u, f.transaction_id, f.filename, f.content_type, f.size)
    \/ \E u \in IssuedIds, pp \in PaidInputs, ps \in StatusInputs :
            ApprovePayment(u, pp, ps)
    \/ \E u \in IssuedIds : DeleteUser(u)

SpecPay == Init /\ [][NextPay]_vars

(* The address monitor on its own: one address; the clock moves in half
   hours at first, then by about the 24 hours of a blacklist *)
IpSpecAddresses == {"10.0.0.1"}
BurstSteps == {30}
DaySteps == {hours(IP_BLACKLIST_DURATION_HOURS) + d : d \in {-30, 0, 30}}
NextIp ==
    \/ \E ip \in IpSpecAddresses :
          /\ Len(AttemptsOf(ip)) < MaxAttempts
          /\ record_failed_attempt(ip)
          /\ UNCHANGED events
    \/ \E ip \in IpSpecAddresses : IP_is_blacklisted(ip)
    \/ \E ip \in IpSpecAddresses : get_failed_attempts(ip)
    \/ \E d \in BurstSteps : Advance(d, MaxBurstTime)
    \/ \E d \in DaySteps : Advance(d, MaxIpTime)
SpecIp == Init /\ [][NextIp]_vars

(* The address monitor with two addresses: the clock moves by the 24 hours of
   a blacklist *)
PairSteps == {hours(IP_BLACKLIST_DURATION_HOURS)}
NextIpPair ==
    \/ \E ip \in Addresses :
          /\ Len(AttemptsOf(ip)) < MaxAttempts
          /\ record_failed_attempt(ip)
          /\ UNCHANGED events
    \/ \E ip \in Addresses : IP_is_blacklisted(ip)
    \/ \E ip \in Addresses : get_failed_attempts(ip)
    \/ \E d \in PairSteps : Advance(d, MaxPairTime)
SpecIpPair == Init /\ [][NextIpPair]_vars

----------------------------------------------------------------------------
(* Tokens: create_token and verify_token of src/backend/server.py.  A token
   is the payload PyJWT signs, with the key that signed it; exp and iat are
   carried as whole seconds since the epoch. *)

JWT_EXPIRATION_HOURS == 24
JWT_REMEMBER_ME_DAYS == 30
JWT_SECRET == "JWT_SECRET"

(* datetime -> seconds since the epoch, and back *)
timestamp(t) == t * 60
fromtimestamp(ts) == ts \div 60

jwt_encode(payload, key) ==
    [payload |-> [user_id |-> payload.user_id,
                  exp |-> timestamp(payload.exp),
                  iat |-> timestamp(payload.iat)],
     signature |-> [hs256 |-> key]]

TokenLifetimeOneDay(remember_me) == hours(JWT_EXPIRATION_HOURS)

TokenLifetime(remember_me) ==
    IF remember_me THEN days(JWT_REMEMBER_ME_DAYS)
    ELSE hours(JWT_EXPIRATION_HOURS)

create_token(user_id, remember_me, at) ==
    jwt_encode([user_id |-> user_id,
                exp |-> at + TokenLifetime(remember_me),
                iat |-> at],
               JWT_SECRET)

(* jwt.decode: the signature first, then exp.  A token read in the very
   second it expires is expired or not by the version of the library. *)
jwt_decode(token, key, at) ==
    IF token.signature # [hs256 |-> key] THEN {"InvalidTokenError"}
    ELSE IF token.payload.exp < timestamp(at) THEN {"ExpiredSignatureError"}
    ELSE IF token.payload.exp = timestamp(at)
    THEN {"ExpiredSignatureError", "payload"}
    ELSE {"payload"}

(* verify_token: the detail of the 401 it raises, or "ok".  The
   HTTPException of its own expiry check is raised inside the try block and
   leaves through "except Exception". *)
verify_token(token, at) ==
    {IF decoded = "ExpiredSignatureError" THEN "Token has expired"
     ELSE IF decoded = "InvalidTokenError" THEN "Invalid token"
     ELSE IF fromtimestamp(token.payload.exp) < at THEN "Authentication failed"
     ELSE "ok" : decoded \in jwt_decode(token, JWT_SECRET, at)}

(* Tokens are held by clients; a client may also present a token signed
   with a key of its own *)
TokenUserIds == {OwnerId} \cup StudentIds
Forged(token) == [token EXCEPT !.signature = [hs256 |-> "guess"]]
Presentable == {g.token : g \in issued} \cup {Forged(g.token) : g \in issued}

CreateToken(user_id, remember_me) ==
    LET token == create_token(user_id, remember_me, now) IN
    /\ Cardinality(issued) < MaxTokens
    /\ issued' = issued \cup {[token |-> token, user_id |-> user_id,
                               remember_me |-> remember_me, at |-> now]}
    /\ last' = Response("create_token", Some(user_id),
                        Some([token |-> token]), "ok")
    /\ UNCHANGED <<now, users, txns, nextId, streak, failedAt, approved,
                   ipvars, token_blacklist, blacklist_timestamps, revocations,
                   sessvars, racevars>>

VerifyToken(token) ==
    /\ \E detail \in verify_token(token, now) :
          last' = Response("verify_token",
                           IF detail = "ok" THEN Some(token.payload.user_id)
                           ELSE Absent,
                           Some([token |-> token]), detail)
    /\ UNCHANGED <<now, users, txns, nextId, streak, failedAt, approved,
                   secvars>>

(* TokenBlacklist (src/backend/advanced_security.py) *)
ExpiredEntryInclusive(exp, at) == exp <= at

ExpiredEntry(exp, at) == exp < at

Expired(at) ==
    {t \in DOMAIN blacklist_timestamps : ExpiredEntry(blacklist_timestamps[t], at)}

(* _cleanup_expired, applied to a blacklist and its timestamps *)
CleanedBlacklist(blacklist, at) == blacklist \ Expired(at)
CleanedTimestamps(timestamps, at) ==
    [t \in DOMAIN timestamps \ Expired(at) |-> timestamps[t]]

(* add without the cleaning pass *)
TokenBlacklist_add_unswept(token, expiry) ==
    /\ token_blacklist' = token_blacklist \cup {token}
    /\ blacklist_timestamps' =
          [t \in DOMAIN blacklist_timestamps \cup {token} |->
              IF t = token THEN expiry ELSE blacklist_timestamps[t]]
    /\ revocations' = revocations \cup {token}
    /\ last' = Response("TokenBlacklist.add", Absent, Some([token |-> token]), "None")
    /\ UNCHANGED <<now, users, txns, nextId, streak, failedAt, approved,
                   ipvars, issued, sessvars, racevars>>

TokenBlacklist_add(token, expiry) ==
    LET added == [t \in DOMAIN blacklist_timestamps \cup {token} |->
                     IF t = token THEN expiry ELSE blacklist_timestamps[t]]
        expired == {t \in DOMAIN added : ExpiredEntry(added[t], now)}
    IN
    /\ token_blacklist' = (token_blacklist \cup {token}) \ expired
    /\ blacklist_timestamps' = [t \in DOMAIN added \ expired |-> added[t]]
    /\ revocations' = revocations \cup {token}
    /\ last' = Response("TokenBlacklist.add", Absent, Some([token |-> token]), "None")
    /\ UNCHANGED <<now, users, txns, nextId, streak, failedAt, approved,
                   ipvars, issued, sessvars, racevars>>

TokenBlacklist_is_blacklisted(token) ==
    /\ token_blacklist' = CleanedBlacklist(token_blacklist, now)
    /\ blacklist_timestamps' = CleanedTimestamps(blacklist_timestamps, now)
    /\ last' = Response("TokenBlacklist.is_blacklisted", Absent, Some([token |-> token]),
                        token \in CleanedBlacklist(token_blacklist, now))
    /\ UNCHANGED <<now, users, txns, nextId, streak, failedAt, approved,
                   ipvars, issued, revocations, sessvars, racevars>>

(* a caller revokes a token up to the token's own expiry *)
RevocationExpiries(token) == {fromtimestamp(token.payload.exp)}

MonthSteps ==
    {days(JWT_REMEMBER_ME_DAYS) - hours(JWT_EXPIRATION_HOURS) + d :
        d \in {-30, 0, 30}}
NextToken ==
    \/ \E u \in TokenUserIds, r \in BOOLEAN : CreateToken(u, r)
    \/ \E t \in Presentable : VerifyToken(t)
    \/ \E g \in issued : \E e \in RevocationExpiries(g.token) :
          TokenBlacklist_add(g.token, e)
    \/ \E t \in Presentable : TokenBlacklist_is_blacklisted(t)
    \/ \E d \in DaySteps : Advance(d, MaxIpTime)
    \/ \E d \in MonthSteps : Advance(d, MaxTokenTime)
SpecToken == Init /\ [][NextToken]_vars

(* The revocation set on its own: the owner's tokens, added with an expiry
   of the caller's choosing, behind, at or ahead of the clock *)
AddExpiries == {now - 1, now, now + 30}
NextRevocation ==
    \/ CreateToken(OwnerId, FALSE)
    \/ \E g \in issued : \E e \in AddExpiries : TokenBlacklist_add(g.token, e)
    \/ \E g \in issued : TokenBlacklist_is_blacklisted(g.token)
    \/ \E d \in BurstSteps : Advance(d, MaxBurstTime)
SpecRevocation == Init /\ [][NextRevocation]_vars

SessionSpecIds == {OwnerId}
NextSession ==
    \/ \E u \in SessionSpecIds, ip \in Addresses, ua \in UserAgents :
          create_session(u, ip, ua)
    \/ \E sid \in SessionIds, ip \in Addresses, ua \in UserAgents :
          validate_session(sid, ip, ua)
    \/ \E d \in BurstSteps : Advance(d, MaxBurstTime)
SpecSession == InitSession /\ [][NextSession]_vars

(* Sessions next to the tokens of the same account *)
NextSessionToken ==
    \/ \E u \in SessionSpecIds : CreateToken(u, FALSE)
    \/ \E g \in issued : \E e \in RevocationExpiries(g.token) :
          TokenBlacklist_add(g.token, e)
    \/ \E u \in SessionSpecIds, ip \in IpSpecAddresses, ua \in UserAgents :
          create_session(u, ip, ua)
    \/ \E sid \in SessionIds, ip \in IpSpecAddresses, ua \in UserAgents :
          validate_session(sid, ip, ua)
    \/ \E d \in BurstSteps : Advance(d, MaxBurstTime)
SpecSessionToken == Init /\ [][NextSessionToken]_vars

(* The attempts of one address around the one-hour mark, every recorded
   attempt remembered in events *)
WindowSteps == {hours(1) + d : d \in {-1, 0, 1}}
NextWindow ==
    \/ \E ip \in IpSpecAddresses :
          /\ Len(events[ip]) < MaxEvents
          /\ record_failed_attempt(ip)
          /\ events' = [events EXCEPT ![ip] = Append(@, now)]
    \/ \E ip \in Addresses : get_failed_attempts(ip)
    \/ \E d \in WindowSteps : Advance(d, MaxWindowTime)
SpecWindow == Init /\ [][NextWindow]_vars

(* A submission and an administrative update in flight together *)
ChannelUploads ==
    {f \in UploadInputs : /\ f.size = 1024
                          /\ f.content_type = "image/jpeg"
                          /\ f.filename = GoodFile}
NextChannels ==
    \/ \E c \in PaySpecContacts, p \in StudentPasswords, f \in PaySpecFaults :
          Register(c, p, f)
    \/ \E u \in IssuedIds, f \in ChannelUploads :
          SubmitFind(u, f.transaction_id, f.filename, f.content_type, f.size)
    \/ SubmitInsert
    \/ SubmitUpdate
    \/ \E u \in IssuedIds, pp \in PaidInputs, ps \in StatusInputs :
          ApproveUsers(u, pp, ps)
    \/ ApproveTxns
SpecChannels == Init /\ [][NextChannels]_vars

(* The detector on its own: one address; requests arrive at once or nine
   seconds apart, and the clock moves by just over an hour *)
SecondSteps == {9}
DetectorSteps == {hours(1) + 1}
NextDetector ==
    \/ \E ip \in IpSpecAddresses, e \in Endpoints :
          /\ Len(RequestsOf(ip)) < MaxRequests
          /\ record_request(ip, e)
    \/ \E ip \in IpSpecAddresses : is_suspicious_pattern(ip)
    \/ \E d \in SecondSteps : Second(d)
    \/ \E d \in DetectorSteps : Advance(d, MaxDetectorTime)
SpecDetector == Init /\ [][NextDetector]_vars

(* Concurrent login requests for the owner's account *)
RaceContacts == {OwnerContact}
NextRace ==
    \/ \E p \in Procs, c \in RaceContacts, pw \in Passwords : LoginFind(p, c, pw)
    \/ \E p \in Procs : LoginReset(p)
    \/ \E p \in Procs : LoginFail(p)
    \/ \E p \in Procs : LoginSucceed(p)
    \/ \E d \in TickSteps : Tick(d)
SpecRace == Init /\ [][NextRace]_vars

(* Concurrent register requests *)
RegisterRaceContacts == {Phone("7"), <<"$">> \o Phone("7"), Phone("8")}
RegisterRaceFaults == {"none", "stream", "photo_type", "photo_size"}
NextRegister ==
    \/ \E p \in Procs, c \in RegisterRaceContacts, pw \in StudentPasswords,
          f \in RegisterRaceFaults : RegisterFind(p, c, pw, f)
    \/ \E p \in Procs : RegisterInsert(p)
SpecRegister == Init /\ [][NextRegister]_vars

(* One student's account under every route that reads or writes it *)
AccountLoginContacts == {Phone("7")}
AccountSpecIds == 1..nextId
AccountUploads ==
    {f \in UploadInputs : /\ f.size = 1024
                          /\ f.content_type = "image/jpeg"
                          /\ f.filename = GoodFile
                          /\ f.transaction_id = GoodTxnId}
AccountSpecUpdates ==
    {<<Some(TRUE), Some("paid")>>, <<Some(FALSE), Absent>>,
     <<Absent, Some("unpaid")>>}
NextAccount ==
    \/ \E c \in PaySpecContacts, p \in StudentPasswords, f \in PaySpecFaults :
          Register(c, p, f)
    \/ \E c \in AccountLoginContacts, p \in Passwords : Login(c, p)
    \/ \E u \in AccountSpecIds : GetProfile(u)
    \/ \E u \in AccountSpecIds, form \in ProfileForms : UpdateProfile(u, form)
    \/ \E u \in AccountSpecIds : GetPaymentStatus(u)
    \/ \E u \in AccountSpecIds, f \in AccountUploads :
          SubmitUpi(u, f.transaction_id, f.filename, f.content_type, f.size)
    \/ \E u \in AccountSpecIds, a \in AccountSpecUpdates :
          ApprovePayment(u, a[1], a[2])
SpecAccount == Init /\ [][NextAccount]_vars

(* Accounts deleted, and the requests that still carry their ids *)
DeleteSpecUploads ==
    {f \in UploadInputs : /\ f.content_type = "image/jpeg"
                          /\ f.filename = GoodFile
                          /\ f.size \in {1024, MAX_UPLOAD_BYTES + 1}}
NextDelete ==
    \/ \E c \in PaySpecContacts, p \in StudentPasswords, f \in PaySpecFaults :
          Register(c, p, f)
    \/ \E u \in IssuedIds, f \in DeleteSpecUploads :
          SubmitUpi(u, f.transaction_id, f.filename, f.content_type, f.size)
    \/ \E u \in IssuedIds, a \in AccountSpecUpdates :
          ApprovePayment(u, a[1], a[2])
    \/ \E u \in IssuedIds : DeleteUser(u)
    \/ \E u \in IssuedIds : GetProfile(u)
    \/ \E u \in IssuedIds : GetPaymentStatus(u)
SpecDelete == Init /\ [][NextDelete]_vars

----------------------------------------------------------------------------
(* Credential guard *)

LoginOn(id) == last'.op = "login" /\ last'.user = Some(id)
FailedCount(id) == Get(users[id].failed_login_attempts, 0)
WithinLockout(id) == now < failedAt[id] + LOCKOUT_DURATION_MINUTES

(* C1: after 5 consecutive failed password checks on an account, counted
   from a failed-attempt count of zero with no successful login in between,
   a login attempt on that account made less than 30 minutes after the 5th
   failure is answered "account locked", whatever password it carries. *)
C1_LockedAfterFiveFailures ==
    [][\A id \in DOMAIN users :
          (LoginOn(id) /\ streak[id] >= MAX_FAILED_LOGIN_ATTEMPTS
             /\ WithinLockout(id))
          => last'.result = "account_locked"]_vars

(* A login with the correct password was refused as locked after exactly
   5 failures. *)
C1_Witness ==
    /\ last.op = "login"
    /\ last.user # Absent
    /\ last.result = "account_locked"
    /\ streak[last.user[1]] = MAX_FAILED_LOGIN_ATTEMPTS
    /\ verify_password(last.input[1].password, users[last.user[1]].password_hash)

(* C2: once 30 minutes have passed since the failure that locked an account,
   the next login attempt with the correct password succeeds and leaves the
   failed-attempt count at 0. *)
C2_LockExpiresLazily ==
    [][\A id \in DOMAIN users :
          (LoginOn(id) /\ streak[id] >= MAX_FAILED_LOGIN_ATTEMPTS
             /\ ~WithinLockout(id)
             /\ verify_password(last'.input[1].password, users[id].password_hash))
          => (last'.result = "ok"
                /\ users'[id].failed_login_attempts = Some(0))]_vars

(* A login found the lock expired and succeeded. *)
C2_Witness ==
    /\ last.op = "login"
    /\ last.lock = "expired"
    /\ last.result = "ok"
    /\ FailedCount(last.user[1]) = 0
    /\ now = failedAt[last.user[1]] + LOCKOUT_DURATION_MINUTES

(* C3: a login attempt on a locked account whose lockout has not expired
   calls no password check and leaves the account document (failed-attempt
   count, last-failed timestamp, last-login time) as it was. *)
C3_LockedAttemptChangesNothing ==
    [][\A id \in DOMAIN users :
          (LoginOn(id) /\ FailedCount(id) >= MAX_FAILED_LOGIN_ATTEMPTS
             /\ WithinLockout(id))
          => (~last'.pwChecked /\ users' = users
                /\ last'.result = "account_locked")]_vars

(* A wrong-password login was refused as locked, some time into the lock. *)
C3_Witness ==
    /\ last.op = "login"
    /\ last.result = "account_locked"
    /\ ~last.pwChecked
    /\ ~verify_password(last.input[1].password, users[last.user[1]].password_hash)
    /\ now > failedAt[last.user[1]]

----------------------------------------------------------------------------
(* Payment reconciliation *)

SubmitBy(id) == last'.op = "submit" /\ last'.user = Some(id)
Students == {id \in DOMAIN users : users[id].role = "student"}
TxnsOf(id, status) ==
    {k \in 1..Len(txns) :
        txns[k].user_id = id /\ txns[k].payment_status = status}
MalformedUpload ==
    {"invalid_transaction_id", "no_filename", "invalid_file_type",
     "invalid_content_type"}
AccountPaid(doc) == doc.payment_paid /\ doc.payment_status = "paid"

(* C4: in every reachable state each (student) account has at most one
   payment transaction whose status is pending. *)
C4_AtMostOnePending ==
    \A id \in Students : Cardinality(TxnsOf(id, "pending")) <= 1

(* C5: a manual-evidence submission made while the account's payment_status
   is "pending" fails, creates no transaction and changes no account. *)
C5_SecondSubmissionRejected ==
    [][\A id \in DOMAIN users :
          (SubmitBy(id) /\ users[id].payment_status = "pending")
          => (last'.result # "ok" /\ txns' = txns /\ users' = users)]_vars

(* A well-formed submission was refused because one is pending. *)
C5_Witness ==
    /\ last.op = "submit"
    /\ last.result = "already_pending"
    /\ last.user[1] \in Students
    /\ Cardinality(TxnsOf(last.user[1], "pending")) = 1
    /\ users[last.user[1]].payment_status = "pending"

(* C6: a well-formed submission for a (student) account whose payment_status
   is "paid" fails as already paid, creates no transaction and leaves the
   payment_status "paid", however the account came to be "paid". *)
C6_PaidStatusRejectsSubmission ==
    [][\A id \in Students :
          (SubmitBy(id) /\ users[id].payment_status = "paid")
          => (/\ last'.result \in {"already_paid"} \cup MalformedUpload
              /\ txns' = txns
              /\ users'[id].payment_status = "paid")]_vars

(* C7: a (student) account is paid if and only if one of its payment
   transactions has status paid. *)
C7_PaidIffPaidTransaction ==
    \A id \in Students :
        AccountPaid(users[id]) <=> TxnsOf(id, "paid") # {}

(* C8: when an administrative update sets payment_paid to true on account B,
   every pending transaction of B becomes paid; and once that has happened
   to a transaction that B submitted, every later well-formed submission for
   B fails as already paid. *)
C8_ApprovalSettlesAndBlocks ==
    [][/\ \A id \in approved \cap DOMAIN users :
            SubmitBy(id) => last'.result \in {"already_paid"} \cup MalformedUpload
       /\ \A id \in DOMAIN users :
            (id \in approved' \ approved)
            => (/\ TxnsOf(id, "pending") # {}
                /\ \A k \in TxnsOf(id, "pending") :
                      txns'[k].payment_status = "paid")]_vars

(* C10: once a (student) account is paid, no later submission or
   administrative update makes it anything else. *)
C10_PaidIsTerminal ==
    [][\A id \in Students :
          (AccountPaid(users[id]) /\ id \in DOMAIN users')
          => AccountPaid(users'[id])]_vars

----------------------------------------------------------------------------
(* Address reputation *)

CallOn(op, key) == last'.op = op /\ last'.input = Some([key |-> key])
Listed(ip) ==
    ip \in DOMAIN blacklisted_ips /\ now < blacklisted_ips[ip]

(* C11: the attempt that is the 51st (or later) of its trailing hour leaves
   the address blacklisted; from then on every lookup made less than 24
   hours after the latest such attempt answers true, and a lookup made more
   than 24 hours after it answers false and removes the stored entry *)
C11_BlacklistedFor24Hours ==
    [][\A ip \in Addresses :
          /\ (CallOn("record_failed_attempt", ip) /\ CrossesAt(ip, now))
                => Listed(ip)'
          /\ (CallOn("is_blacklisted", ip) /\ crossedAt[ip] # Absent)
                => /\ now < crossedAt[ip][1] + 24 * 60
                        => last'.result = TRUE
                   /\ now > crossedAt[ip][1] + 24 * 60
                        => /\ last'.result = FALSE
                           /\ ip \notin DOMAIN blacklisted_ips']_vars

C11_Witness ==
    \E ip \in Addresses :
          /\ last.op = "is_blacklisted"
          /\ last.input = Some([key |-> ip])
          /\ last.result = FALSE
          /\ crossedAt[ip] # Absent
          /\ now > crossedAt[ip][1] + 24 * 60
          /\ ip \notin DOMAIN blacklisted_ips

(* C12: every failed login request is recorded against its source address
   in the address monitor (so that the 51st within an hour blacklists the
   address and later login requests from it are turned away before the
   lockout check and the password check): a login step answered "invalid
   credentials" adds an attempt to some address's record *)
C12_FailedLoginsReachMonitor ==
    [][(last'.op = "login" /\ last'.result = "invalid_credentials")
          => \E ip \in Addresses :
                Len(AttemptsOf(ip)') > 0 /\ AttemptsOf(ip)' # AttemptsOf(ip)]_vars

----------------------------------------------------------------------------
(* Tokens *)

Verifying(token) ==
    last'.op = "verify_token" /\ last'.input = Some([token |-> token])

(* C13: a token issued for an account id validates to exactly that id at
   every time before its lifetime has elapsed (24 hours, or 30 days when
   remember_me was chosen), and validation fails as expired at every time
   after it has elapsed *)
C13_TokenRoundTrip ==
    [][\A g \in issued :
          Verifying(g.token) =>
             LET ttl == IF g.remember_me THEN 30 * 24 * 60 ELSE 24 * 60 IN
             /\ now < g.at + ttl
                   => last'.result = "ok" /\ last'.user = Some(g.user_id)
             /\ now > g.at + ttl
                   => last'.result = "Token has expired"]_vars

C13_Witness ==
    \E g \in issued :
       /\ g.remember_me
       /\ last.op = "verify_token"
       /\ last.input = Some([token |-> g.token])
       /\ last.result = "ok"
       /\ last.user = Some(g.user_id)
       /\ now > g.at + 24 * 60

(* C14: a token that has been revoked and whose revocation has not expired
   is never accepted by token validation *)
C14_RevokedTokenRejected ==
    [][\A tok \in token_blacklist :
          (/\ Verifying(tok)
           /\ tok \in DOMAIN blacklist_timestamps
           /\ now < blacklist_timestamps[tok])
             => last'.result # "ok"]_vars

----------------------------------------------------------------------------
(* Sessions *)

Validating(sid, ip, ua) ==
    /\ last'.op = "validate_session"
    /\ last'.input = Some([session_id |-> sid, ip |-> ip, user_agent |-> ua])
OriginDiffers(sid, ip) == sessions[sid].ip # ip
SignatureDiffers(sid, ua) == sessions[sid].user_agent # ua

(* C15: validating a session answers "invalid session" for an unknown id;
   otherwise "origin mismatch" when origin enforcement is on and the stored
   address differs (also when the client signature differs too); otherwise
   "signature mismatch" when signature enforcement is on and the stored
   signature differs, whether or not origin enforcement is on; otherwise ok,
   with last_activity set to the time of the call *)
C15_ValidationPriority ==
    [][\A sid \in SessionIds, ip \in Addresses, ua \in UserAgents :
          Validating(sid, ip, ua) =>
             IF sid \notin DOMAIN sessions
             THEN last'.result = <<FALSE, "Invalid session">>
             ELSE
             /\ (config.REQUIRE_IP_CONSISTENCY /\ OriginDiffers(sid, ip))
                   => last'.result =
                        <<FALSE, "IP address mismatch - potential session hijacking">>
             /\ (/\ ~(config.REQUIRE_IP_CONSISTENCY /\ OriginDiffers(sid, ip))
                 /\ config.REQUIRE_USER_AGENT_CONSISTENCY
                 /\ SignatureDiffers(sid, ua))
                   => last'.result =
                        <<FALSE, "User agent mismatch - potential session hijacking">>
             /\ (/\ ~(config.REQUIRE_IP_CONSISTENCY /\ OriginDiffers(sid, ip))
                 /\ ~(config.REQUIRE_USER_AGENT_CONSISTENCY
                        /\ SignatureDiffers(sid, ua)))
                   => /\ last'.result = <<TRUE, "">>
                      /\ sessions'[sid].last_activity = now]_vars

C15_Witness ==
    /\ last.op = "validate_session"
    /\ ~config.REQUIRE_IP_CONSISTENCY
    /\ config.REQUIRE_USER_AGENT_CONSISTENCY
    /\ last.input[1].session_id \in DOMAIN sessions
    /\ sessions[last.input[1].session_id].ip # last.input[1].ip
    /\ sessions[last.input[1].session_id].user_agent # last.input[1].user_agent
    /\ last.result = <<FALSE, "User agent mismatch - potential session hijacking">>

(* the tokens a session can have been created under: those issued to its
   account up to the session's creation *)
TokensBehind(sid) ==
    {g.token : g \in {h \in issued : /\ h.user_id = sessions[sid].user_id
                                     /\ h.at <= sessions[sid].created_at}}
Revoked(tok) ==
    /\ tok \in token_blacklist
    /\ tok \in DOMAIN blacklist_timestamps
    /\ now < blacklist_timestamps[tok]

(* C16: once the token under which a session was created has been revoked
   (here: every token the session can have been created under), validating
   the session fails, also with the matching address and client signature *)
C16_RevokedTokenEndsSession ==
    [][\A sid \in DOMAIN sessions, ip \in Addresses, ua \in UserAgents :
          (/\ Validating(sid, ip, ua)
           /\ TokensBehind(sid) # {}
           /\ \A tok \in TokensBehind(sid) : Revoked(tok))
             => last'.result[1] = FALSE]_vars

----------------------------------------------------------------------------
(* Sliding window *)

RecordedSince(ip, from) ==
    Cardinality({i \in 1..Len(events[ip]) : events[ip][i] >= from})
RecordedAfter(ip, from) ==
    Cardinality({i \in 1..Len(events[ip]) : events[ip][i] > from})

(* C17 as stated: the count read for a key is the number of attempts
   recorded for it in the closed interval [now - 1 hour, now], stale entries
   pruned or not; a key never recorded reads 0 *)
C17_ClosedWindowCount ==
    [][\A ip \in Addresses :
          CallOn("get_failed_attempts", ip)
             => last'.result = RecordedSince(ip, now - 60)]_vars

(* C17 as amended: the count read for a key is the number of attempts
   recorded for it in the half-open interval (now - 1 hour, now], stale
   entries pruned or not; a key never recorded reads 0 *)
C17_HalfOpenWindowCount ==
    [][\A ip \in Addresses :
          CallOn("get_failed_attempts", ip)
             => last'.result = RecordedAfter(ip, now - 60)]_vars

C17_Witness ==
    \E ip \in Addresses :
       /\ last.op = "get_failed_attempts"
       /\ last.input = Some([key |-> ip])
       /\ last.result = 1
       /\ \E i \in 1..Len(events[ip]) : events[ip][i] = now - 60
       /\ \E i \in 1..Len(events[ip]) : events[ip][i] < now - 60

----------------------------------------------------------------------------
(* Concurrent logins *)

(* C18: when the login requests that overlapped were all wrong-password
   requests that saw the account open (count below the threshold), then
   once all have completed the account's failed-attempt count has grown by
   exactly their number *)
C18_ConcurrentFailuresAllCounted ==
    (/\ AllIdle
     /\ batch.right = 0
     /\ batch.expired = 0
     /\ batch.other = 0)
       => FailedCount(OwnerId) = batch.base + batch.wrong

C18_Witness ==
    /\ AllIdle
    /\ batch.right = 0
    /\ batch.expired = 0
    /\ batch.other = 0
    /\ batch.base > 0
    /\ batch.wrong >= 2
    /\ FailedCount(OwnerId) = batch.base + batch.wrong

(* C19: when one wrong-password request and one correct-password request
   overlapped, neither of them turned away by the lockout, then once both
   have completed the account's failed-attempt count is 0 *)
C19_SuccessIsFinalReset ==
    (/\ AllIdle
     /\ batch.wrong = 1
     /\ batch.right = 1
     /\ batch.other = 0)
       => FailedCount(OwnerId) = 0

----------------------------------------------------------------------------
(* Payment fields of an account *)

PaymentFields(doc) == <<doc.payment_paid, doc.payment_status>>

(* C20: an account is created with payment_status "unpaid", payment_paid
   false and failed-attempt count 0; its payment fields change only in a
   payment submission or an administrative update applied to it, and never
   in a login or a profile operation *)
C20_UnpaidUntilPaymentOperation ==
    [][/\ \A id \in DOMAIN users' \ DOMAIN users :
             /\ PaymentFields(users'[id]) = <<FALSE, "unpaid">>
             /\ users'[id].failed_login_attempts = Some(0)
       /\ \A id \in DOMAIN users \cap DOMAIN users' :
             PaymentFields(users'[id]) # PaymentFields(users[id])
                => last'.op \in {"submit", "admin"} /\ last'.user = Some(id)
       /\ last'.op \in {"login", "get_profile", "update_profile",
                        "get_payment_status"}
             => \A id \in DOMAIN users \cap DOMAIN users' :
                   PaymentFields(users'[id]) = PaymentFields(users[id])]_vars

C20_Witness ==
    \E id \in DOMAIN users \ {OwnerId} :
       /\ last.op = "update_profile"
       /\ last.result = "ok"
       /\ last.user = Some(id)
       /\ "name" \in DOMAIN users[id]
       /\ users[id].last_login # Absent
       /\ FailedCount(id) = 0
       /\ PaymentFields(users[id]) = <<FALSE, "unpaid">>
       /\ txns = <<>>

----------------------------------------------------------------------------
(* Manual-evidence submission *)

UploadRefused == MalformedUpload \cup {"file_too_large"}

(* C21: a submission whose transaction id, file and size pass validation,
   for an account whose payment_paid is false and whose payment_status is
   not "pending", succeeds: it appends exactly one transaction, of that
   account and with status pending, sets the account's payment_status to
   "pending", leaves payment_paid false and changes no other account *)
C21_SubmissionCreatesPending ==
    [][\A id \in DOMAIN users :
          (/\ SubmitBy(id)
           /\ ~users[id].payment_paid
           /\ users[id].payment_status # "pending"
           /\ last'.result \notin UploadRefused)
          => (/\ last'.result = "ok"
              /\ Len(txns') = Len(txns) + 1
              /\ SubSeq(txns', 1, Len(txns)) = txns
              /\ txns'[Len(txns')].user_id = id
              /\ txns'[Len(txns')].payment_status = "pending"
              /\ users'[id].payment_status = "pending"
              /\ users'[id].payment_paid = FALSE
              /\ \A j \in DOMAIN users \ {id} :
                    j \in DOMAIN users' /\ users'[j] = users[j])]_vars

(* A student's first submission was accepted. *)
C21_Witness ==
    /\ last.op = "submit"
    /\ last.result = "ok"
    /\ last.user[1] \in Students
    /\ Len(txns) = 1
    /\ txns[1].user_id = last.user[1]
    /\ txns[1].payment_status = "pending"
    /\ users[last.user[1]].payment_status = "pending"
    /\ ~users[last.user[1]].payment_paid

----------------------------------------------------------------------------
(* Registration *)

(* C22: in every reachable state, under any interleaving of concurrent
   register requests, no two accounts hold the same contact *)
C22_ContactsUnique ==
    \A i \in DOMAIN users : \A j \in DOMAIN users :
        users[i].contact = users[j].contact => i = j

----------------------------------------------------------------------------
(* Deletion *)

RequestBy(op, id) == last'.op = op /\ last'.user = Some(id)
DeletedIds == IssuedIds \ DOMAIN users

(* C23: a delete that succeeds removes the one account document and leaves
   every transaction and every other account as it was; for an id whose
   account has been deleted, a profile read and a payment-status read
   answer "not found", a submission that reaches the account lookup
   answers "not found", and no submission creates a transaction *)
C23_DeleteLeavesTransactions ==
    [][/\ \A id \in DOMAIN users :
            (RequestBy("delete", id) /\ last'.result = "ok")
            => (/\ txns' = txns
                /\ DOMAIN users' = DOMAIN users \ {id}
                /\ \A j \in DOMAIN users' : users'[j] = users[j])
       /\ \A id \in DeletedIds :
            /\ RequestBy("get_profile", id) => last'.result = "user_not_found"
            /\ RequestBy("get_payment_status", id)
                  => last'.result = "user_not_found"
            /\ RequestBy("submit", id)
                  => (/\ last'.result \in {"user_not_found"} \cup MalformedUpload
                      /\ txns' = txns
                      /\ users' = users)]_vars

(* A submission for a deleted account, whose pending transaction is still
   stored, was answered "not found". *)
C23_Witness ==
    /\ last.op = "submit"
    /\ last.result = "user_not_found"
    /\ last.user[1] \in DeletedIds
    /\ TxnsOf(last.user[1], "pending") # {}

----------------------------------------------------------------------------
(* Lockout under concurrent logins *)

(* C24: under any interleaving of concurrent login attempts on one account
   the outcomes are those of some sequential order of the attempts; in
   particular no account's failed-attempt count ever exceeds 5 *)
C24_CountNeverExceedsFive ==
    \A id \in DOMAIN users : FailedCount(id) <= MAX_FAILED_LOGIN_ATTEMPTS

----------------------------------------------------------------------------
(* Successful login *)

(* C25: a login with the correct password on an account that is not locked
   succeeds; a login that succeeds leaves the account's failed-attempt
   count at 0 and its last-login time at the time of the login, whatever
   the count was; and a login is answered "account locked" only after 5
   failed password checks with no successful login in between *)
C25_SuccessResetsCount ==
    [][\A id \in DOMAIN users :
          /\ (/\ LoginOn(id)
               /\ LockState(users[id], now) # "locked"
               /\ verify_password(last'.input[1].password,
                                  users[id].password_hash))
                => last'.result = "ok"
          /\ (LoginOn(id) /\ last'.result = "ok")
                => (/\ users'[id].failed_login_attempts = Some(0)
                    /\ users'[id].last_login = Some(isoformat(now)))
          /\ (LoginOn(id) /\ last'.result = "account_locked")
                => streak[id] >= MAX_FAILED_LOGIN_ATTEMPTS]_vars

(* A login succeeded on an open account right after a failed one. *)
C25_Witness ==
    /\ last.op = "login"
    /\ last.result = "ok"
    /\ last.lock = "open"
    /\ now > 0
    /\ failedAt[last.user[1]] = now
    /\ users[last.user[1]].last_failed_login = Some(isoformat(now))
    /\ users[last.user[1]].last_login = Some(isoformat(now))
    /\ FailedCount(last.user[1]) = 0

----------------------------------------------------------------------------
(* Lockout is per account *)

HoldersOf(contact) ==
    {i \in DOMAIN users : users[i].contact = sanitize_mongodb_query(contact)}
ChangedAccounts == {i \in DOMAIN users : users'[i] # users[i]}

(* C26: a login attempt changes no account but one that holds the contact
   submitted (as the handler looks it up), and at most one; it creates and
   removes none, and touches no per-address state; when no account holds
   the contact it is answered "invalid credentials" and changes nothing *)
C26_LockoutPerAccount ==
    [][\A c \in LoginContacts : \A p \in Passwords :
          (last'.op = "login" /\ Login(c, p))
          => (/\ DOMAIN users' = DOMAIN users
              /\ ChangedAccounts \subseteq HoldersOf(c)
              /\ Cardinality(ChangedAccounts) <= 1
              /\ ipvars' = ipvars
              /\ HoldersOf(c) = {}
                    => (last'.result = "invalid_credentials"
                          /\ users' = users))]_vars

(* A failed login on a student's account was counted on that account while
   the owner's account has no failure on record. *)
C26_Witness ==
    /\ last.op = "login"
    /\ last.result = "invalid_credentials"
    /\ last.user # Absent
    /\ last.user[1] \in Students
    /\ FailedCount(last.user[1]) >= 2
    /\ OwnerId \in DOMAIN users
    /\ FailedCount(OwnerId) = 0
    /\ users[OwnerId].last_failed_login = Absent

----------------------------------------------------------------------------
(* Blacklisting only by crossing the threshold *)

(* C27: a lookup answers true only if some attempt recorded in the 24 hours
   before it was at least the 51st of its own trailing hour (attempts an
   hour or more old not counted); an attempt that is not such an attempt
   leaves the blacklist as it was; and an address is on the blacklist only
   with the expiry of its latest such attempt *)
C27_BlacklistedOnlyByCrossing ==
    [][\A ip \in Addresses :
          /\ (CallOn("is_blacklisted", ip) /\ last'.result = TRUE)
                => (/\ crossedAt[ip] # Absent
                    /\ crossedAt[ip][1] <= now
                    /\ now - crossedAt[ip][1] <= 24 * 60)
          /\ (CallOn("record_failed_attempt", ip) /\ ~CrossesAt(ip, now))
                => blacklisted_ips' = blacklisted_ips
          /\ ip \in DOMAIN blacklisted_ips'
                => (/\ crossedAt'[ip] # Absent
                    /\ blacklisted_ips'[ip] = crossedAt'[ip][1] + 24 * 60)]_vars

(* A lookup late in the 24 hours after the crossing answered true, with
   no attempt of the last hour on record. *)
C27_Witness ==
    \E ip \in Addresses :
       /\ last.op = "is_blacklisted"
       /\ last.input = Some([key |-> ip])
       /\ last.result = TRUE
       /\ crossedAt[ip] # Absent
       /\ now - crossedAt[ip][1] = 24 * 60 - 30
       /\ CleanOld(AttemptsOf(ip), now) = <<>>

----------------------------------------------------------------------------
(* Suspicious traffic *)

(* the requests of the trailing hour as of now: a request is dropped from
   the record only once it is an hour old, so these are on record *)
TrailingHour(ip) ==
    SelectSeq(RequestsOf(ip),
              LAMBDA r : DetectorNow - r.timestamp < 60 * 60)
GapsBelowOneSecond(requests) ==
    LET n == Len(requests)
        first == IF n > 10 THEN n - 9 ELSE 1
    IN  n >= 2 /\ requests[n].timestamp - requests[first].timestamp < n - first

(* C28: a query of the suspicious-traffic flag answers true exactly when
   the address has made more than 100 requests in the hour up to the query
   and the gaps between its 10 most recent requests average under one
   second; requests more than an hour old at the query do not count,
   pruned or not *)
C28_SuspiciousExactlyWhenRapid ==
    [][\A ip \in Addresses :
          CallOn("is_suspicious_pattern", ip)
          => (last'.result = TRUE
                <=> (/\ Len(TrailingHour(ip)) > 100
                     /\ GapsBelowOneSecond(TrailingHour(ip))))]_vars

----------------------------------------------------------------------------
(* Revocation set *)

LookingUp(token) ==
    /\ last'.op = "TokenBlacklist.is_blacklisted"
    /\ last'.input = Some([token |-> token])
NaturalExpiry(g) == g.at + (IF g.remember_me THEN 30 * 24 * 60 ELSE 24 * 60)

(* C29: once a token has been added with its natural expiry, a lookup of
   it made up to that expiry answers true and a lookup made after it
   answers false; and right after every add and every lookup the set holds
   no entry whose expiry is in the past *)
C29_RevokedUntilExpiry ==
    [][/\ \A g \in issued :
            (LookingUp(g.token) /\ g.token \in revocations)
            => (/\ now <= NaturalExpiry(g) => last'.result = TRUE
                /\ now > NaturalExpiry(g) => last'.result = FALSE)
       /\ last'.op \in {"TokenBlacklist.add", "TokenBlacklist.is_blacklisted"}
            => (/\ token_blacklist' = DOMAIN blacklist_timestamps'
                /\ \A t \in DOMAIN blacklist_timestamps' :
                      blacklist_timestamps'[t] >= now)]_vars

(* A lookup at the very minute of the token's expiry answered true, after
   an earlier entry had expired and been removed. *)
C29_Witness ==
    \E g \in issued : \E h \in issued :
       /\ last.op = "TokenBlacklist.is_blacklisted"
       /\ last.input = Some([token |-> g.token])
       /\ last.result = TRUE
       /\ now = NaturalExpiry(g)
       /\ h.token \in revocations
       /\ NaturalExpiry(h) < now
       /\ h.token \notin token_blacklist

----------------------------------------------------------------------------
(* Failed session validation *)

(* C30: a validation that fails (unknown id, address mismatch or client
   signature mismatch) leaves every session as it was, last_activity
   included; no step removes a session or changes its address or
   signature; so whatever validations failed before, a validation of a
   session with the address and signature it was created with succeeds *)
C30_FailedValidationChangesNothing ==
    [][/\ (last'.op = "validate_session" /\ last'.result[1] = FALSE)
            => sessions' = sessions
       /\ \A sid \in DOMAIN sessions :
            /\ sid \in DOMAIN sessions'
            /\ sessions'[sid].ip = sessions[sid].ip
            /\ sessions'[sid].user_agent = sessions[sid].user_agent
            /\ Validating(sid, sessions[sid].ip, sessions[sid].user_agent)
                  => last'.result = <<TRUE, "">>]_vars

(* A validation from another address failed some time after the session
   was created, and the session's last_activity is still its creation
   time. *)
C30_Witness ==
    /\ last.op = "validate_session"
    /\ last.result[1] = FALSE
    /\ last.input[1].session_id \in DOMAIN sessions
    /\ sessions[last.input[1].session_id].ip # last.input[1].ip
    /\ sessions[last.input[1].session_id].created_at < now
    /\ sessions[last.input[1].session_id].last_activity
          = sessions[last.input[1].session_id].created_at

----------------------------------------------------------------------------
(* Transaction history *)

(* C31: no step removes a transaction or changes whose it is; a transaction
   is created pending; the only change of status any step makes is pending
   to paid, so a paid transaction stays paid *)
C31_TransactionStatusMonotonic ==
    [][/\ Len(txns') >= Len(txns)
       /\ \A k \in 1..Len(txns) :
             /\ txns'[k].user_id = txns[k].user_id
             /\ txns'[k].transaction_id = txns[k].transaction_id
             /\ txns'[k].payment_status # txns[k].payment_status
                   => (/\ txns[k].payment_status = "pending"
                       /\ txns'[k].payment_status = "paid")
       /\ \A k \in (Len(txns) + 1)..Len(txns') :
             txns'[k].payment_status = "pending"]_vars

(* A paid transaction stayed paid through a later submission of the same
   account and the deletion of the account. *)
C31_Witness ==
    /\ Len(txns) = 2
    /\ txns[1].payment_status = "paid"
    /\ txns[2].payment_status = "pending"
    /\ txns[2].user_id = txns[1].user_id
    /\ txns[1].user_id \notin DOMAIN users

----------------------------------------------------------------------------
(* Payment channels racing *)

(* C32: when a submission and an administrative update that sets
   payment_paid to true were in flight together for one account, then once
   both have completed that account has no pending transaction and its
   payment_status is not "pending" *)
C32_NoPendingAfterRace ==
    \A id \in DOMAIN users :
        (/\ pays.submit.pc = "idle"
         /\ pays.admin.pc = "idle"
         /\ pays.raced = Some(id))
        => (/\ TxnsOf(id, "pending") = {}
            /\ users[id].payment_status # "pending")

(* C33: a submission that is refused, for whatever reason, creates no
   transaction, changes no transaction and leaves every account, its
   payment fields included, as it was *)
C33_RefusedSubmissionChangesNothing ==
    [][(last'.op = "submit" /\ last'.result # "ok")
       => (/\ txns' = txns
           /\ DOMAIN users' = DOMAIN users
           /\ \A id \in DOMAIN users :
                 /\ users'[id].payment_paid = users[id].payment_paid
                 /\ users'[id].payment_status = users[id].payment_status)]_vars
C33_Witness ==
    /\ last.op = "submit"
    /\ last.result = "file_too_large"
    /\ last.user[1] \in DOMAIN users
    /\ users[last.user[1]].payment_status = "unpaid"
    /\ ~users[last.user[1]].payment_paid
    /\ Len(txns) = 1
    /\ txns[1].user_id # last.user[1]

----------------------------------------------------------------------------
(* Address reputation *)

IpCalls == {"record_failed_attempt", "get_failed_attempts", "is_blacklisted"}

(* C34: recording a failure for, counting the failures of, or checking the
   blacklist of one address leaves the recorded failures of every other
   address, whether it is blacklisted and the expiry of its blacklisting as
   they were *)
C34_OtherAddressUntouched ==
    [][\A a \in Addresses : \A b \in Addresses \ {a} :
          (last'.op \in IpCalls /\ last'.input = Some([key |-> a]))
          => (/\ (b \in DOMAIN ip_failed_attempts')
                    = (b \in DOMAIN ip_failed_attempts)
              /\ b \in DOMAIN ip_failed_attempts
                    => ip_failed_attempts'[b] = ip_failed_attempts[b]
              /\ (b \in DOMAIN blacklisted_ips') = (b \in DOMAIN blacklisted_ips)
              /\ b \in DOMAIN blacklisted_ips
                    => blacklisted_ips'[b] = blacklisted_ips[b])]_vars
C34_Witness ==
    \E a \in Addresses : \E b \in Addresses \ {a} :
        /\ last.op = "is_blacklisted"
        /\ last.input = Some([key |-> a])
        /\ last.result = FALSE
        /\ b \in DOMAIN blacklisted_ips
        /\ ~BlacklistLive(blacklisted_ips[b], now)
        /\ Len(AttemptsOf(b)) > MAX_FAILED_REQUESTS_PER_IP
        /\ a \in DOMAIN ip_failed_attempts

----------------------------------------------------------------------------
(* Payment fields *)

(* C35: in every reachable state each account's payment_paid is true
   exactly when its payment_status is "paid" *)
C35_PaymentFieldsAgree ==
    \A id \in DOMAIN users :
        users[id].payment_paid = (users[id].payment_status = "paid")

----------------------------------------------------------------------------
(* Blacklist expiry *)

FailuresInTrailingHour(attempts, at) ==
    Cardinality({i \in 1..Len(attempts) : at - attempts[i] < hours(1)})

(* C36: a recorded failure that leaves more than 50 failures of the address
   in the trailing hour sets the address's blacklist expiry to 24 hours
   after that failure; and no step moves the expiry of an address that
   stays blacklisted to an earlier time *)
C36_ExpiryResetByFailure ==
    [][\A ip \in Addresses :
          /\ (/\ last'.op = "record_failed_attempt"
              /\ last'.input = Some([key |-> ip])
              /\ FailuresInTrailingHour(ip_failed_attempts'[ip], now')
                    > MAX_FAILED_REQUESTS_PER_IP)
             => (/\ ip \in DOMAIN blacklisted_ips'
                 /\ blacklisted_ips'[ip] = now' + hours(IP_BLACKLIST_DURATION_HOURS))
          /\ (ip \in DOMAIN blacklisted_ips /\ ip \in DOMAIN blacklisted_ips')
             => blacklisted_ips'[ip] >= blacklisted_ips[ip]]_vars
(* a failure half an hour after the address was blacklisted has moved the
   expiry on by that half hour *)
C36_Witness ==
    \E ip \in Addresses :
        /\ last.op = "record_failed_attempt"
        /\ last.input = Some([key |-> ip])
        /\ ip \in DOMAIN blacklisted_ips
        /\ Len(AttemptsOf(ip)) > MAX_FAILED_REQUESTS_PER_IP + 1
        /\ AttemptsOf(ip)[MAX_FAILED_REQUESTS_PER_IP + 1] < now
        /\ blacklisted_ips[ip] = now + hours(IP_BLACKLIST_DURATION_HOURS)

----------------------------------------------------------------------------
(* Lockout timestamp *)

(* C37: in every reachable state an account whose failed-attempt count is 5
   or more has a last-failed-login time recorded; and a login attempt on
   such an account is refused as locked, changing nothing, while that time
   is less than 30 minutes old, and otherwise starts the count again from 0
   (0 after a right password, 1 after a wrong one) *)
C37_CountedAccountHasTimestamp ==
    /\ [](\A id \in DOMAIN users :
            FailedCount(id) >= MAX_FAILED_LOGIN_ATTEMPTS
            => users[id].last_failed_login # Absent)
    /\ [][\A id \in DOMAIN users :
            (/\ LoginOn(id)
             /\ FailedCount(id) >= MAX_FAILED_LOGIN_ATTEMPTS
             /\ users[id].last_failed_login # Absent)
            => IF LockoutExpired(now, users[id].last_failed_login[1])
               THEN /\ last'.lock = "expired"
                    /\ users'[id].failed_login_attempts =
                          IF last'.result = "ok" THEN Some(0) ELSE Some(1)
               ELSE /\ last'.result = "account_locked"
                    /\ users' = users]_vars
(* a wrong password after the lock has run out: the count starts again at 1 *)
C37_Witness ==
    /\ last.op = "login"
    /\ last.user # Absent
    /\ last.lock = "expired"
    /\ last.result = "invalid_credentials"
    /\ FailedCount(last.user[1]) = 1
    /\ users[last.user[1]].last_failed_login = Some(isoformat(now))
    /\ streak[last.user[1]] = 1

----------------------------------------------------------------------------
(* Revocation set and its expiries *)

RevocationCalls == {"TokenBlacklist.add", "TokenBlacklist.is_blacklisted"}

(* C38: right after every add and every lookup the revocation set holds
   exactly the tokens that have a stored expiry; and an add whose expiry is
   before the time of the call leaves the token out of the set and without
   a stored expiry *)
C38_SetMatchesExpiries ==
    [][/\ last'.op \in RevocationCalls
            => token_blacklist' = DOMAIN blacklist_timestamps'
       /\ \A g \in issued : \A e \in AddExpiries :
            (/\ last'.op = "TokenBlacklist.add"
             /\ TokenBlacklist_add(g.token, e)
             /\ e < now)
            => (/\ g.token \notin token_blacklist'
                /\ g.token \notin DOMAIN blacklist_timestamps')]_vars
(* a token that was in the set was added again with an expiry in the past
   and is out of it, while another stays in *)
C38_Witness ==
    \E g \in issued : \E h \in issued :
       /\ last.op = "TokenBlacklist.add"
       /\ last.input = Some([token |-> g.token])
       /\ g.token \notin token_blacklist
       /\ h.token \in token_blacklist
       /\ blacklist_timestamps[h.token] > now
       /\ token_blacklist = DOMAIN blacklist_timestamps

============================================================================
